---- MODULE Spec2Model ----
(***************************************************************************)
(* SimpleMail backend: IMAP synchronisation and mailbox-state              *)
(* reconciliation.  The model covers the ImapClient operations, the       *)
(* identifier codec used by the command handlers, the folder and bulk      *)
(* email commands, and the local cache (accounts, folders, emails).        *)
(*                                                                         *)
(* Strings are modelled as sequences of one-character strings so that      *)
(* format!, split('-'), parse::<u32>, to_lowercase and contains are        *)
(* computed and not assumed.                                               *)
(***************************************************************************)
EXTENDS Integers, Sequences, FiniteSets, TLC

(* ------------------------------------------------------------------ *)
(* Bounds of the model                                                 *)
(* ------------------------------------------------------------------ *)

\* number of command invocations explored in one behaviour
MaxCmds == 3

\* largest index of the step of a command that an external fault can hit
MaxFaultAt == 13

\* number of commands of one behaviour that an external fault hits
MaxFaults == 1

(* ------------------------------------------------------------------ *)
(* Strings                                                             *)
(* ------------------------------------------------------------------ *)

Dash == "-"

Digits == <<"0", "1", "2", "3", "4", "5", "6", "7", "8", "9">>

IsDigit(c) == \E i \in 1..10 : Digits[i] = c

DigitVal(c) == (CHOOSE i \in 1..10 : Digits[i] = c) - 1

\* u32::MAX = 4294967295, the range of uid_str.parse::<u32>(), as its digits
U32MaxDigits == <<"4", "2", "9", "4", "9", "6", "7", "2", "9", "5">>

\* format!("{}", n) of an unsigned integer
RECURSIVE U32ToString(_)
U32ToString(n) ==
    IF n < 10 THEN <<Digits[n + 1]>>
    ELSE U32ToString(n \div 10) \o <<Digits[(n % 10) + 1]>>

RECURSIVE DigitsValue(_, _)
DigitsValue(s, acc) ==
    IF s = <<>> THEN acc
    ELSE DigitsValue(Tail(s), acc * 10 + DigitVal(Head(s)))

RECURSIVE StripZeros(_)
StripZeros(s) ==
    IF s # <<>> /\ Head(s) = "0" THEN StripZeros(Tail(s)) ELSE s

\* the digits d denote a number above u32::MAX
ExceedsU32(d) ==
    LET sig == StripZeros(d)
    IN  \/ Len(sig) > Len(U32MaxDigits)
        \/ /\ Len(sig) = Len(U32MaxDigits)
           /\ \E i \in 1..Len(sig) :
                 /\ DigitVal(sig[i]) > DigitVal(U32MaxDigits[i])
                 /\ \A j \in 1..(i - 1) : sig[j] = U32MaxDigits[j]

\* str::parse::<u32>(): an optional '+', then one or more ASCII digits, the
\* value within u32.  The result is [ok, val].
ParseU32(s) ==
    LET body == IF s # <<>> /\ Head(s) = "+" THEN Tail(s) ELSE s
    IN  IF body = <<>> \/ \E i \in 1..Len(body) : ~IsDigit(body[i])
        THEN [ok |-> FALSE, val |-> 0]
        ELSE IF ExceedsU32(body) THEN [ok |-> FALSE, val |-> 0]
        ELSE [ok |-> TRUE, val |-> DigitsValue(body, 0)]

\* str::split(sep).collect::<Vec<_>>(): always at least one segment
RECURSIVE SplitFrom(_, _, _)
SplitFrom(s, sep, cur) ==
    IF s = <<>> THEN <<cur>>
    ELSE IF Head(s) = sep THEN <<cur>> \o SplitFrom(Tail(s), sep, <<>>)
    ELSE SplitFrom(Tail(s), sep, Append(cur, Head(s)))

Split(s, sep) == SplitFrom(s, sep, <<>>)

Last(seq) == seq[Len(seq)]

UpperChars == <<"A", "B", "D", "E", "F", "I", "K", "L", "M", "N", "O", "R", "S", "T", "W", "X">>
LowerChars == <<"a", "b", "d", "e", "f", "i", "k", "l", "m", "n", "o", "r", "s", "t", "w", "x">>

\* char::to_lowercase over the alphabet of the model
LowerChar(c) ==
    IF \E i \in 1..Len(UpperChars) : UpperChars[i] = c
    THEN LowerChars[CHOOSE i \in 1..Len(UpperChars) : UpperChars[i] = c]
    ELSE c

\* faulty variant of to_lowercase: the name is compared as written
AsWritten(s) == s

\* str::to_lowercase()
ToLowercase(s) == [i \in 1..Len(s) |-> LowerChar(s[i])]

\* str::contains(pattern)
Contains(s, pat) ==
    \E i \in 0..(Len(s) - Len(pat)) :
        \A j \in 1..Len(pat) : s[i + j] = pat[j]

\* format!("{}-{}", account_id, folder_name)
FolderId(account_id, folder_name) == account_id \o <<Dash>> \o folder_name

\* format!("{}-{}-{}", account_id, folder_name, uid)
EmailId(account_id, folder_name, uid) ==
    account_id \o <<Dash>> \o folder_name \o <<Dash>> \o U32ToString(uid)

(* ------------------------------------------------------------------ *)
(* Names used by the model                                             *)
(* ------------------------------------------------------------------ *)

ACCT1 == <<"a", "c", "c", "t", "1">>
ACCT2 == <<"a", "c", "c", "t", "2">>

INBOX == <<"I", "N", "B", "O", "X">>
WORK == <<"W", "o", "r", "k">>
OLD == <<"O", "l", "d">>
MYSENT == <<"M", "y", "S", "e", "n", "t">>
RENAMED_INBOX == <<"R", "e", "n", "a", "m", "e", "d", "I", "N", "B", "O", "X">>

NoFolder == <<>>

\* the names delete_folder refuses, folder_ops.rs:109
ProtectedWords ==
    { <<"i", "n", "b", "o", "x">>, <<"s", "e", "n", "t">>,
      <<"t", "r", "a", "s", "h">>, <<"d", "r", "a", "f", "t", "s">> }

(* ------------------------------------------------------------------ *)
(* The remote mail store, as seen through one imap::Session            *)
(*                                                                     *)
(* A mailbox mb maps each existing folder name to the sequence of its  *)
(* messages in sequence-number order; a message is                     *)
(* [uid, seen, flagged, deleted].  The execution of one command is    *)
(* threaded through a record s = [mb, T, conn, sel, log, failAt, ok,   *)
(* out]: mb the mailbox, T the local cache, conn whether the           *)
(* ImapClient holds a session, sel the selected folder, log the steps  *)
(* made so far (remote round trips and local statements), failAt the   *)
(* index of the step that an external fault hits (0: none), ok the     *)
(* result of the last call and out the value it returned; issued and   *)
(* succeeded list the identifiers of a batch for which a remote        *)
(* mutation was called, and for which it returned Ok; named is the     *)
(* identifier that the message of the returned error contains.         *)
(* ------------------------------------------------------------------ *)

Msg(uid, seen, flagged, deleted) ==
    [uid |-> uid, seen |-> seen, flagged |-> flagged, deleted |-> deleted]

Event(c, f, g, n, ok) == [c |-> c, f |-> f, g |-> g, n |-> n, ok |-> ok]

NewSession(mb, T, failAt) ==
    [mb |-> mb, T |-> T, conn |-> FALSE, sel |-> NoFolder, log |-> <<>>,
     failAt |-> failAt, ok |-> TRUE, out |-> <<>>, issued |-> <<>>, succeeded |-> <<>>,
     named |-> <<>>]

\* One request-response round trip: the server accepts it or not, and a
\* network fault makes it fail without effect.
RoundTrip(s, c, f, g, n, accept, mb2, sel2, out) ==
    LET ok == accept /\ (Len(s.log) + 1 # s.failAt)
    IN  [s EXCEPT !.log = Append(@, Event(c, f, g, n, ok)),
                  !.mb = IF ok THEN mb2 ELSE @,
                  !.sel = IF ok THEN sel2 ELSE @,
                  !.ok = ok,
                  !.out = IF ok THEN out ELSE <<>>]

\* self.session.as_mut().ok_or("Not connected to IMAP server")?
NotConnected(s) == [s EXCEPT !.ok = FALSE, !.out = "Not connected to IMAP server"]

SeqValid(s, n) == s.sel \in DOMAIN s.mb /\ n >= 1 /\ n <= Len(s.mb[s.sel])

\* session.select(folder)
Select(s, folder) ==
    RoundTrip(s, "SELECT", folder, <<>>, 0, folder \in DOMAIN s.mb, s.mb, folder,
              IF folder \in DOMAIN s.mb THEN Len(s.mb[folder]) ELSE 0)

SetFlag(m, flag, val) ==
    CASE flag = "Seen" -> [m EXCEPT !.seen = val]
      [] flag = "Flagged" -> [m EXCEPT !.flagged = val]
      [] flag = "Deleted" -> [m EXCEPT !.deleted = val]

UidValid(s, u) ==
    s.sel \in DOMAIN s.mb /\ \E k \in 1..Len(s.mb[s.sel]) : s.mb[s.sel][k].uid = u

\* variant in which the number is taken as a UID, a UID that the folder does
\* not hold being refused
StoreByUid(s, u, flag, val) ==
    RoundTrip(s, "STORE", s.sel, <<flag>>, u, UidValid(s, u),
              IF UidValid(s, u)
              THEN [s.mb EXCEPT ![s.sel] =
                       [k \in 1..Len(@) |->
                           IF @[k].uid = u THEN SetFlag(@[k], flag, val) ELSE @[k]]]
              ELSE s.mb,
              s.sel, <<>>)

\* session.store(format!("{}", n), "+FLAGS (..)" / "-FLAGS (..)"): STORE takes a
\* message sequence number of the selected folder
Store(s, n, flag, val) ==
    RoundTrip(s, "STORE", s.sel, <<flag>>, n, SeqValid(s, n),
              IF SeqValid(s, n)
              THEN [s.mb EXCEPT ![s.sel] = [@ EXCEPT ![n] = SetFlag(@, flag, val)]]
              ELSE s.mb,
              s.sel, <<>>)

\* session.expunge(): removes every message of the selected folder that
\* carries \Deleted
Expunge(s) ==
    RoundTrip(s, "EXPUNGE", s.sel, <<>>, 0, s.sel \in DOMAIN s.mb,
              IF s.sel \in DOMAIN s.mb
              THEN [s.mb EXCEPT ![s.sel] = SelectSeq(@, LAMBDA m : ~m.deleted)]
              ELSE s.mb,
              s.sel, <<>>)

MaxUid(msgs) ==
    IF msgs = <<>> THEN 0
    ELSE CHOOSE u \in {msgs[i].uid : i \in 1..Len(msgs)} :
            \A i \in 1..Len(msgs) : msgs[i].uid <= u

\* session.copy(format!("{}", n), dest): COPY takes a message sequence number;
\* the copy gets the next UID of the destination
Copy(s, n, dest) ==
    LET acc == SeqValid(s, n) /\ dest \in DOMAIN s.mb
    IN  RoundTrip(s, "COPY", s.sel, dest, n, acc,
                  IF acc
                  THEN [s.mb EXCEPT ![dest] =
                           Append(@, [s.mb[s.sel][n] EXCEPT !.uid = MaxUid(s.mb[dest]) + 1])]
                  ELSE s.mb,
                  s.sel, <<>>)

\* session.fetch(format!("{}:{}", a, b), "(UID RFC822 FLAGS)"): a sequence-number
\* range; 0 is no sequence number
Fetch(s, a, b) ==
    LET acc == SeqValid(s, a) /\ SeqValid(s, b)
        lo == IF a <= b THEN a ELSE b
        hi == IF a <= b THEN b ELSE a
    IN  RoundTrip(s, "FETCH", s.sel, <<>>, a, acc, s.mb, s.sel,
                  IF acc THEN SubSeq(s.mb[s.sel], lo, hi) ELSE <<>>)

\* session.list(None, Some("*")): the names of all folders, in some order
RECURSIVE SetToSeq(_)
SetToSeq(S) ==
    IF S = {} THEN <<>>
    ELSE LET x == CHOOSE y \in S : TRUE IN <<x>> \o SetToSeq(S \ {x})

List(s) ==
    RoundTrip(s, "LIST", <<>>, <<>>, 0, TRUE, s.mb, s.sel, SetToSeq(DOMAIN s.mb))

\* session.create(name)
Create(s, name) ==
    RoundTrip(s, "CREATE", name, <<>>, 0, name \notin DOMAIN s.mb /\ name # <<>>,
              [f \in DOMAIN s.mb \cup {name} |->
                  IF f \in DOMAIN s.mb THEN s.mb[f] ELSE <<>>],
              s.sel, <<>>)

\* session.rename(old, new)
Rename(s, old, new) ==
    RoundTrip(s, "RENAME", old, new, 0,
              old \in DOMAIN s.mb /\ new \notin DOMAIN s.mb /\ new # <<>>,
              [f \in (DOMAIN s.mb \ {old}) \cup {new} |->
                  IF f = new THEN (IF old \in DOMAIN s.mb THEN s.mb[old] ELSE <<>>)
                  ELSE s.mb[f]],
              s.sel, <<>>)

\* session.delete(name)
Delete(s, name) ==
    RoundTrip(s, "DELETE", name, <<>>, 0, name \in DOMAIN s.mb,
              [f \in DOMAIN s.mb \ {name} |-> s.mb[f]],
              s.sel, <<>>)

(* ------------------------------------------------------------------ *)
(* ImapClient (imap_client.rs)                                         *)
(* ------------------------------------------------------------------ *)

\* variant of connect: the session is stored although the login failed
connect_stored_anyway(s) ==
    LET s1 == RoundTrip(s, "CONNECT", <<>>, <<>>, 0, TRUE, s.mb, NoFolder, <<>>)
    IN  [s1 EXCEPT !.conn = TRUE]

\* ImapClient::connect: TCP, TLS, LOGIN and CAPABILITY as one step; the session
\* is stored only when all of it succeeded
client_connect(s) ==
    LET s1 == RoundTrip(s, "CONNECT", <<>>, <<>>, 0, TRUE, s.mb, NoFolder, <<>>)
    IN  [s1 EXCEPT !.conn = s1.ok]

\* ImapClient::disconnect: takes the session and logs out
client_disconnect(s) ==
    IF s.conn
    THEN [RoundTrip(s, "LOGOUT", <<>>, <<>>, 0, TRUE, s.mb, NoFolder, <<>>)
             EXCEPT !.conn = FALSE]
    ELSE [s EXCEPT !.ok = TRUE, !.out = <<>>]

client_list_folders(s) ==
    IF ~s.conn THEN NotConnected(s) ELSE List(s)

client_select_folder(s, folder) ==
    IF ~s.conn THEN NotConnected(s) ELSE Select(s, folder)

\* the ImapEmail that parse_email builds: read and starred do not come from
\* the flags
ImapEmail(uid, folder) ==
    [uid |-> uid, read |-> TRUE, starred |-> FALSE, folder |-> folder]

Reverse(seq) == [i \in 1..Len(seq) |-> seq[Len(seq) + 1 - i]]

\* parse_email(uid, body, folder): mailparse::parse_mail accepts the raw body
\* of the message or rejects it
parse_email(s, uid, folder) ==
    LET ok == Len(s.log) + 1 # s.failAt
    IN  [s EXCEPT !.log = Append(@, Event("PARSE", folder, <<>>, uid, ok)),
                  !.ok = ok,
                  !.out = IF ok THEN ImapEmail(uid, folder) ELSE <<>>]

\* the loop of fetch_emails over the fetched messages: `?` returns at the
\* first message that parse_email rejects
RECURSIVE parse_all(_, _, _, _)
parse_all(s, messages, folder, emails) ==
    IF messages = <<>> THEN [s EXCEPT !.ok = TRUE, !.out = emails]
    ELSE LET s1 == parse_email(s, Head(messages).uid, folder)
         IN  IF ~s1.ok THEN s1
             ELSE parse_all(s1, Tail(messages), folder, Append(emails, s1.out))

\* fetch_emails once select_folder has returned message_count in s1.out
fetch_selected(s1, folder, limit) ==
    LET message_count == s1.out
        start_seq == IF message_count > limit THEN message_count - limit + 1 ELSE 1
        s2 == Fetch(s1, start_seq, message_count)
    IN  IF ~s2.ok THEN s2
        ELSE parse_all(s2, Reverse(s2.out), folder, <<>>)

client_fetch_emails(s, folder, limit) ==
    LET s1 == client_select_folder(s, folder)
    IN  IF ~s1.ok THEN s1 ELSE fetch_selected(s1, folder, limit)

\* mark_as_read / mark_as_unread / mark_as_starred: SELECT, then STORE
client_store_flag(s, folder, uid, flag, val) ==
    IF ~s.conn THEN NotConnected(s)
    ELSE LET s1 == Select(s, folder)
         IN  IF ~s1.ok THEN s1 ELSE Store(s1, uid, flag, val)

client_mark_as_read(s, folder, uid) == client_store_flag(s, folder, uid, "Seen", TRUE)

client_mark_as_unread(s, folder, uid) == client_store_flag(s, folder, uid, "Seen", FALSE)

client_mark_as_starred(s, folder, uid) == client_store_flag(s, folder, uid, "Flagged", TRUE)

\* variant of delete_email: the result of the SELECT is not looked at
delete_in_selected(s, folder, uid) ==
    IF ~s.conn THEN NotConnected(s)
    ELSE LET s1 == Select(s, folder)
             s2 == Store(s1, uid, "Deleted", TRUE)
         IN  IF ~s2.ok THEN s2 ELSE Expunge(s2)

client_delete_email(s, folder, uid) ==
    IF ~s.conn THEN NotConnected(s)
    ELSE LET s1 == Select(s, folder)
         IN  IF ~s1.ok THEN s1
             ELSE LET s2 == Store(s1, uid, "Deleted", TRUE)
                  IN  IF ~s2.ok THEN s2 ELSE Expunge(s2)

client_move_email(s, folder, uid, dest_folder) ==
    IF ~s.conn THEN NotConnected(s)
    ELSE LET s1 == Select(s, folder)
         IN  IF ~s1.ok THEN s1
             ELSE LET s2 == Copy(s1, uid, dest_folder)
                  IN  IF ~s2.ok THEN s2
                      ELSE LET s3 == Store(s2, uid, "Deleted", TRUE)
                           IN  IF ~s3.ok THEN s3 ELSE Expunge(s3)

\* create_folder, rename_folder and delete_folder of ImapClient are called by
\* folder_ops.rs; they carry the session's CREATE, RENAME and DELETE
client_create_folder(s, name) ==
    IF ~s.conn THEN NotConnected(s) ELSE Create(s, name)

client_rename_folder(s, old, new) ==
    IF ~s.conn THEN NotConnected(s) ELSE Rename(s, old, new)

client_delete_folder(s, name) ==
    IF ~s.conn THEN NotConnected(s) ELSE Delete(s, name)


(* ------------------------------------------------------------------ *)
(* The local cache (sqlite): accounts, folders, emails                 *)
(*                                                                     *)
(* T = [accounts, creds, folders, emails].  accounts is the set of     *)
(* account ids, creds the set of account ids with a stored password    *)
(* (the credential file); a folders row is [id, account_id, name]; an  *)
(* emails row is [id, account_id, folder_id, uid, is_read,             *)
(* is_starred].  id is the primary key of each table.                  *)
(* ------------------------------------------------------------------ *)

FolderRow(id, account_id, name) == [id |-> id, account_id |-> account_id, name |-> name]

EmailRow(id, account_id, folder_id, uid, is_read, is_starred) ==
    [id |-> id, account_id |-> account_id, folder_id |-> folder_id, uid |-> uid,
     is_read |-> is_read, is_starred |-> is_starred]

Ids(rows) == {r.id : r \in rows}

\* variant of the WHERE clause of a bulk statement: every row matches
EveryRow(id, email_ids) == TRUE

\* WHERE id IN (?, ..), one placeholder bound per identifier of the batch
InBatch(id, email_ids) == \E i \in 1..Len(email_ids) : email_ids[i] = id

\* The schema (schema.sql) is not among the source files.  As the cache is
\* described, id is the primary key of each table; no other constraint is
\* taken to be enforced.  A row of key id cannot be added to rows:
KeyTaken(rows, id) == id \in Ids(rows)

\* the table as a statement that would add row among rows, without regard
\* to the row already stored under its key, leaves it
AddedBeside(rows, row) == rows \cup {row}

\* INSERT OR REPLACE INTO ..: the row takes the place of the row stored under
\* its key, if there is one
Replace(rows, row) == {r \in rows : r.id # row.id} \cup {row}

\* One SQL statement q = [kind, a, b, c] applied to T: [ok, T].  A statement
\* that breaks the primary key fails and changes nothing.
ApplyStmt(T, q) ==
    CASE q.kind = "INSERT_FOLDER" ->
            IF KeyTaken(T.folders, q.a) THEN [ok |-> FALSE, T |-> T]
            ELSE [ok |-> TRUE,
                  T |-> [T EXCEPT !.folders = @ \cup {FolderRow(q.a, q.b, q.c)}]]
      [] q.kind = "REPLACE_FOLDER" ->
            [ok |-> TRUE,
             T |-> [T EXCEPT !.folders = Replace(@, FolderRow(q.a, q.b, q.c))]]
      [] q.kind = "UPDATE_FOLDER_ID" ->
            \* UPDATE folders SET id = a, name = b WHERE id = c
            IF q.c \in Ids(T.folders) /\ q.a # q.c /\ KeyTaken(T.folders, q.a)
            THEN [ok |-> FALSE, T |-> T]
            ELSE [ok |-> TRUE,
                  T |-> [T EXCEPT !.folders =
                           {IF r.id = q.c THEN [r EXCEPT !.id = q.a, !.name = q.b] ELSE r :
                              r \in @}]]
      [] q.kind = "UPDATE_EMAILS_FOLDER" ->
            \* UPDATE emails SET folder_id = a WHERE folder_id = c
            [ok |-> TRUE,
             T |-> [T EXCEPT !.emails =
                      {IF r.folder_id = q.c THEN [r EXCEPT !.folder_id = q.a] ELSE r :
                         r \in @}]]
      [] q.kind = "DELETE_EMAILS_OF_FOLDER" ->
            [ok |-> TRUE, T |-> [T EXCEPT !.emails = {r \in @ : r.folder_id # q.a}]]
      [] q.kind = "DELETE_FOLDER" ->
            [ok |-> TRUE, T |-> [T EXCEPT !.folders = {r \in @ : r.id # q.a}]]
      [] q.kind = "REPLACE_EMAIL" ->
            [ok |-> TRUE,
             T |-> [T EXCEPT !.emails = Replace(@, q.a)]]
      [] q.kind = "UPDATE_EMAILS_READ" ->
            \* UPDATE emails SET is_read = b WHERE id IN (a)
            [ok |-> TRUE,
             T |-> [T EXCEPT !.emails =
                      {IF InBatch(r.id, q.a) THEN [r EXCEPT !.is_read = q.b] ELSE r :
                         r \in @}]]
      [] q.kind = "UPDATE_EMAILS_STARRED" ->
            [ok |-> TRUE,
             T |-> [T EXCEPT !.emails =
                      {IF InBatch(r.id, q.a) THEN [r EXCEPT !.is_starred = q.b] ELSE r :
                         r \in @}]]
      [] q.kind = "UPDATE_EMAILS_FOLDER_IN" ->
            \* UPDATE emails SET folder_id = b WHERE id IN (a)
            [ok |-> TRUE,
             T |-> [T EXCEPT !.emails =
                      {IF InBatch(r.id, q.a) THEN [r EXCEPT !.folder_id = q.b] ELSE r :
                         r \in @}]]
      [] q.kind = "DELETE_EMAILS_IN" ->
            [ok |-> TRUE, T |-> [T EXCEPT !.emails = {r \in @ : ~InBatch(r.id, q.a)}]]
      [] q.kind = "DELETE_EMAILS_OF_ACCOUNT" ->
            [ok |-> TRUE, T |-> [T EXCEPT !.emails = {r \in @ : r.account_id # q.a}]]
      [] q.kind = "DELETE_FOLDERS_OF_ACCOUNT" ->
            [ok |-> TRUE, T |-> [T EXCEPT !.folders = {r \in @ : r.account_id # q.a}]]
      [] q.kind = "DELETE_ACCOUNT" ->
            [ok |-> TRUE, T |-> [T EXCEPT !.accounts = @ \ {q.a}]]

Stmt(kind, a, b, c) == [kind |-> kind, a |-> a, b |-> b, c |-> c]


\* One local step (a query or a statement): it is accepted or not, and an
\* external fault (I/O error, locked database) makes it fail without effect.
LocalStep(s, c, accept, T2) ==
    LET ok == accept /\ (Len(s.log) + 1 # s.failAt)
    IN  [s EXCEPT !.log = Append(@, Event(c, <<>>, <<>>, 0, ok)),
                  !.T = IF ok THEN T2 ELSE @,
                  !.ok = ok,
                  !.out = <<>>]

\* sqlx::query(..).execute(..)
Execute(s, q) ==
    LET r == ApplyStmt(s.T, q) IN LocalStep(s, q.kind, r.ok, r.T)

\* statements executed one after the other, stopping at the first error
RECURSIVE ExecuteAll(_, _)
ExecuteAll(s, qs) ==
    IF qs = <<>> THEN [s EXCEPT !.ok = TRUE]
    ELSE LET s1 == Execute(s, Head(qs))
         IN  IF ~s1.ok THEN s1 ELSE ExecuteAll(s1, Tail(qs))

\* faulty variant: the writes of a failed transaction stay
NotRolledBack(s, T0) == s

RolledBack(s, T0) == [s EXCEPT !.T = T0]

\* faulty variant: the statements run outside a transaction
Autocommit(s, qs) == ExecuteAll(s, qs)

\* db.pool.begin() .. tx.commit(): a transaction dropped on an error path is
\* rolled back
Transaction(s, qs) ==
    LET T0 == s.T
        s1 == LocalStep(s, "BEGIN", TRUE, s.T)
    IN  IF ~s1.ok THEN s1
        ELSE LET s2 == ExecuteAll(s1, qs)
             IN  IF ~s2.ok THEN RolledBack(s2, T0)
                 ELSE LET s3 == LocalStep(s2, "COMMIT", TRUE, s2.T)
                      IN  IF ~s3.ok THEN RolledBack(s3, T0) ELSE s3

(* ------------------------------------------------------------------ *)
(* Commands                                                            *)
(* ------------------------------------------------------------------ *)

\* variant of get_account_with_credentials: the SELECT is taken to return a row
\* whether or not the accounts table holds one
row_assumed(s, account_id) ==
    LET s1 == LocalStep(s, "ACCOUNT", TRUE, s.T)
    IN  IF ~s1.ok THEN s1
        ELSE LocalStep(s1, "CREDS", account_id \in s1.T.creds, s1.T)

\* get_account_with_credentials: the account row, then its password
get_account_with_credentials(s, account_id) ==
    LET s1 == LocalStep(s, "ACCOUNT", account_id \in s.T.accounts, s.T)
    IN  IF ~s1.ok THEN s1
        ELSE LocalStep(s1, "CREDS", account_id \in s1.T.creds, s1.T)

\* the account row alone (sync_folders, fetch_emails of email_ops.rs)
get_account(s, account_id) ==
    LocalStep(s, "ACCOUNT", account_id \in s.T.accounts, s.T)

\* what every remote command starts with: the account, then ImapClient::new
\* and connect
Connected(s, account_id) ==
    LET s1 == get_account_with_credentials(s, account_id)
    IN  IF ~s1.ok THEN s1 ELSE client_connect(s1)

\* early return: nothing was attempted
Nothing(s, ok) == [s EXCEPT !.ok = ok]

create_folder_run(s, account_id, folder_name) ==
    LET s1 == Connected(s, account_id)
    IN  IF ~s1.ok THEN s1 ELSE
        LET s2 == client_create_folder(s1, folder_name)
        IN  IF ~s2.ok THEN s2 ELSE
            LET s3 == client_disconnect(s2)
            IN  IF ~s3.ok THEN s3 ELSE
                Execute(s3, Stmt("INSERT_FOLDER", FolderId(account_id, folder_name),
                                 account_id, folder_name))

\* faulty variant of rename_folder: the cache is written before the server is asked
rename_folder_local_first(s, account_id, folder_name, new_name) ==
    LET old_folder_id == FolderId(account_id, folder_name)
        new_folder_id == FolderId(account_id, new_name)
        s1 == Transaction(s,
                  << Stmt("UPDATE_FOLDER_ID", new_folder_id, new_name, old_folder_id),
                     Stmt("UPDATE_EMAILS_FOLDER", new_folder_id, <<>>, old_folder_id) >>)
    IN  IF ~s1.ok THEN s1 ELSE
        LET s2 == Connected(s1, account_id)
        IN  IF ~s2.ok THEN s2 ELSE
            LET s3 == client_rename_folder(s2, folder_name, new_name)
            IN  IF ~s3.ok THEN s3 ELSE client_disconnect(s3)

rename_folder_run(s, account_id, folder_name, new_name) ==
    LET s1 == Connected(s, account_id)
    IN  IF ~s1.ok THEN s1 ELSE
        LET s2 == client_rename_folder(s1, folder_name, new_name)
        IN  IF ~s2.ok THEN s2 ELSE
            LET s3 == client_disconnect(s2)
            IN  IF ~s3.ok THEN s3 ELSE
                LET old_folder_id == FolderId(account_id, folder_name)
                    new_folder_id == FolderId(account_id, new_name)
                IN  Transaction(s3,
                        << Stmt("UPDATE_FOLDER_ID", new_folder_id, new_name, old_folder_id),
                           Stmt("UPDATE_EMAILS_FOLDER", new_folder_id, <<>>, old_folder_id) >>)

\* variant of the guard of delete_folder: no name is refused
NeverEssential(folder_name) == FALSE

\* folder_ops.rs:108-109
IsEssential(folder_name) ==
    LET lower_name == ToLowercase(folder_name)
    IN  \E w \in ProtectedWords : Contains(lower_name, w)

delete_folder_run(s, account_id, folder_name) ==
    IF IsEssential(folder_name) THEN Nothing(s, FALSE) ELSE
    LET s1 == Connected(s, account_id)
    IN  IF ~s1.ok THEN s1 ELSE
        LET s2 == client_delete_folder(s1, folder_name)
        IN  IF ~s2.ok THEN s2 ELSE
            LET s3 == client_disconnect(s2)
            IN  IF ~s3.ok THEN s3 ELSE
                LET folder_id == FolderId(account_id, folder_name)
                IN  Transaction(s3,
                        << Stmt("DELETE_EMAILS_OF_FOLDER", folder_id, <<>>, <<>>),
                           Stmt("DELETE_FOLDER", folder_id, <<>>, <<>>) >>)


\* variant of the decoding in which the folder is taken from the first part
DecodedFromFirst(email_id) ==
    LET parts == Split(email_id, Dash)
    IN  IF Len(parts) >= 3
        THEN LET p == ParseU32(Last(parts))
             IN  [ok |-> p.ok, folder |-> parts[1], uid |-> p.val]
        ELSE [ok |-> FALSE, folder |-> <<>>, uid |-> 0]

\* the decoding of the bulk actions, email_actions.rs:41-45: parts[1] is the
\* folder, the last part the uid
Decode(email_id) ==
    LET parts == Split(email_id, Dash)
    IN  IF Len(parts) >= 3
        THEN LET p == ParseU32(Last(parts))
             IN  [ok |-> p.ok, folder |-> parts[2], uid |-> p.val]
        ELSE [ok |-> FALSE, folder |-> <<>>, uid |-> 0]

\* the decoding of move_emails_to_folder, folder_ops.rs:173-174
DecodeUid(email_id) == ParseU32(Last(Split(email_id, Dash)))

ClientMutation(s, kind, folder, uid) ==
    CASE kind = "read" -> client_mark_as_read(s, folder, uid)
      [] kind = "unread" -> client_mark_as_unread(s, folder, uid)
      [] kind = "delete" -> client_delete_email(s, folder, uid)

\* faulty variant: the error of a remote mutation does not end the batch
NotedAndContinued(s0, s1, email_id) ==
    [s1 EXCEPT !.issued = Append(s0.issued, email_id),
               !.succeeded = IF s1.ok THEN Append(s0.succeeded, email_id)
                             ELSE s0.succeeded,
               !.ok = TRUE]

\* one identifier of the batch went through its remote mutation
Noted(s0, s1, email_id) ==
    [s1 EXCEPT !.issued = Append(s0.issued, email_id),
               !.succeeded = IF s1.ok THEN Append(s0.succeeded, email_id)
                             ELSE s0.succeeded,
               !.named = IF s1.ok THEN @ ELSE email_id]

\* the loop "for email_id in &email_ids" of mark_emails_as_read,
\* mark_emails_as_unread and delete_emails: `?` leaves at the first error
RECURSIVE bulk_remote(_, _, _)
bulk_remote(s, email_ids, kind) ==
    IF email_ids = <<>> THEN [s EXCEPT !.ok = TRUE]
    ELSE LET d == Decode(Head(email_ids))
         IN  IF d.ok
             THEN LET s1 == Noted(s, ClientMutation(s, kind, d.folder, d.uid),
                                  Head(email_ids))
                  IN  IF ~s1.ok THEN s1 ELSE bulk_remote(s1, Tail(email_ids), kind)
             ELSE bulk_remote(s, Tail(email_ids), kind)

\* the loop of move_emails_to_folder
RECURSIVE move_remote(_, _, _, _)
move_remote(s, email_ids, source_folder, target_folder) ==
    IF email_ids = <<>> THEN [s EXCEPT !.ok = TRUE]
    ELSE LET p == DecodeUid(Head(email_ids))
         IN  IF p.ok
             THEN LET s1 == Noted(s, client_move_email(s, source_folder, p.val,
                                                       target_folder),
                                  Head(email_ids))
                  IN  IF ~s1.ok THEN s1
                      ELSE move_remote(s1, Tail(email_ids), source_folder, target_folder)
             ELSE move_remote(s, Tail(email_ids), source_folder, target_folder)

\* variant of the statement of a bulk action: the first identifier alone
\* is bound
FirstBound(kind, email_ids) ==
    CASE kind = "read" -> Stmt("UPDATE_EMAILS_READ", <<Head(email_ids)>>, TRUE, <<>>)
      [] kind = "unread" -> Stmt("UPDATE_EMAILS_READ", <<Head(email_ids)>>, FALSE, <<>>)
      [] kind = "delete" -> Stmt("DELETE_EMAILS_IN", <<Head(email_ids)>>, <<>>, <<>>)
      [] kind = "star" -> Stmt("UPDATE_EMAILS_STARRED", <<Head(email_ids)>>, TRUE, <<>>)
      [] kind = "unstar" -> Stmt("UPDATE_EMAILS_STARRED", <<Head(email_ids)>>, FALSE, <<>>)

\* the single statement that ends a bulk action
BulkStmt(kind, email_ids) ==
    CASE kind = "read" -> Stmt("UPDATE_EMAILS_READ", email_ids, TRUE, <<>>)
      [] kind = "unread" -> Stmt("UPDATE_EMAILS_READ", email_ids, FALSE, <<>>)
      [] kind = "delete" -> Stmt("DELETE_EMAILS_IN", email_ids, <<>>, <<>>)
      [] kind = "star" -> Stmt("UPDATE_EMAILS_STARRED", email_ids, TRUE, <<>>)
      [] kind = "unstar" -> Stmt("UPDATE_EMAILS_STARRED", email_ids, FALSE, <<>>)

\* mark_emails_as_read, mark_emails_as_unread, delete_emails
\* variant of the bulk actions: the statement on the cache is executed although
\* a remote mutation failed
cached_regardless(s, account_id, email_ids, kind) ==
    IF email_ids = <<>> THEN Nothing(s, TRUE) ELSE
    LET s1 == Connected(s, account_id)
    IN  IF ~s1.ok THEN s1 ELSE
        LET s2 == bulk_remote(s1, email_ids, kind)
        IN  IF ~s2.ok
            THEN [Execute([s2 EXCEPT !.failAt = 0], BulkStmt(kind, email_ids))
                     EXCEPT !.ok = FALSE, !.log = s2.log, !.failAt = s2.failAt]
            ELSE
            LET s3 == client_disconnect(s2)
            IN  IF ~s3.ok THEN s3 ELSE Execute(s3, BulkStmt(kind, email_ids))

bulk_run(s, account_id, email_ids, kind) ==
    IF email_ids = <<>> THEN Nothing(s, TRUE) ELSE
    LET s1 == Connected(s, account_id)
    IN  IF ~s1.ok THEN s1 ELSE
        LET s2 == bulk_remote(s1, email_ids, kind)
        IN  IF ~s2.ok THEN s2 ELSE
            LET s3 == client_disconnect(s2)
            IN  IF ~s3.ok THEN s3 ELSE Execute(s3, BulkStmt(kind, email_ids))

\* star_emails, unstar_emails: the cache alone
star_run(s, email_ids, kind) ==
    IF email_ids = <<>> THEN Nothing(s, TRUE)
    ELSE Execute(s, BulkStmt(kind, email_ids))

\* variant of move_emails_to_folder: the emails are given the bare name of
\* the target folder as their folder reference
move_to_bare_name(s, account_id, source_folder, target_folder, email_ids) ==
    IF email_ids = <<>> THEN Nothing(s, TRUE) ELSE
    LET s1 == Connected(s, account_id)
    IN  IF ~s1.ok THEN s1 ELSE
        LET s2 == move_remote(s1, email_ids, source_folder, target_folder)
        IN  IF ~s2.ok THEN s2 ELSE
            LET s3 == client_disconnect(s2)
            IN  IF ~s3.ok THEN s3 ELSE
                Execute(s3, Stmt("UPDATE_EMAILS_FOLDER_IN", email_ids, target_folder, <<>>))

move_emails_to_folder_run(s, account_id, source_folder, target_folder, email_ids) ==
    IF email_ids = <<>> THEN Nothing(s, TRUE) ELSE
    LET s1 == Connected(s, account_id)
    IN  IF ~s1.ok THEN s1 ELSE
        LET s2 == move_remote(s1, email_ids, source_folder, target_folder)
        IN  IF ~s2.ok THEN s2 ELSE
            LET s3 == client_disconnect(s2)
            IN  IF ~s3.ok THEN s3 ELSE
                Execute(s3, Stmt("UPDATE_EMAILS_FOLDER_IN", email_ids,
                                 FolderId(account_id, target_folder), <<>>))

\* limit.unwrap_or(50)
DefaultLimit == 50

\* the rows that fetch_emails_secure / fetch_emails save, one statement each
EmailStmts(account_id, folder_name, imap_emails) ==
    [i \in 1..Len(imap_emails) |->
        Stmt("REPLACE_EMAIL",
             EmailRow(EmailId(account_id, folder_name, imap_emails[i].uid), account_id,
                      folder_name, imap_emails[i].uid, imap_emails[i].read,
                      imap_emails[i].starred),
             <<>>, <<>>)]

\* fetch_emails_secure (secure) and fetch_emails of email_ops.rs
fetch_emails_run(s, account_id, folder_name, limit, secure) ==
    LET s0 == IF secure THEN get_account_with_credentials(s, account_id)
              ELSE get_account(s, account_id)
    IN  IF ~s0.ok THEN s0 ELSE
        LET s1 == client_connect(s0)
        IN  IF ~s1.ok THEN s1 ELSE
            LET s2 == client_fetch_emails(s1, folder_name, limit)
            IN  IF ~s2.ok THEN s2 ELSE
                LET s3 == client_disconnect(s2)
                IN  IF ~s3.ok THEN s3
                    ELSE LET s4 == ExecuteAll(s3, EmailStmts(account_id, folder_name, s2.out))
                         IN  IF ~s4.ok THEN s4 ELSE [s4 EXCEPT !.out = s2.out]

FolderStmts(account_id, imap_folders) ==
    [i \in 1..Len(imap_folders) |->
        Stmt("REPLACE_FOLDER", FolderId(account_id, imap_folders[i]), account_id,
             imap_folders[i])]

\* sync_folders_secure (secure) and sync_folders of email_ops.rs
sync_folders_run(s, account_id, secure) ==
    LET s0 == IF secure THEN get_account_with_credentials(s, account_id)
              ELSE get_account(s, account_id)
    IN  IF ~s0.ok THEN s0 ELSE
        LET s1 == client_connect(s0)
        IN  IF ~s1.ok THEN s1 ELSE
            LET s2 == client_list_folders(s1)
            IN  IF ~s2.ok THEN s2 ELSE
                LET s3 == client_disconnect(s2)
                IN  IF ~s3.ok THEN s3
                    ELSE ExecuteAll(s3, FolderStmts(account_id, s2.out))

\* delete_credentials: load, remove, save
delete_credentials(s, account_id) ==
    LocalStep(s, "DELETE_CREDS", TRUE, [s.T EXCEPT !.creds = @ \ {account_id}])

\* delete_account_secure (secure) and delete_account of email_ops.rs
delete_account_run(s, account_id, secure) ==
    LET s1 == Transaction(s,
                 << Stmt("DELETE_EMAILS_OF_ACCOUNT", account_id, <<>>, <<>>),
                    Stmt("DELETE_FOLDERS_OF_ACCOUNT", account_id, <<>>, <<>>),
                    Stmt("DELETE_ACCOUNT", account_id, <<>>, <<>>) >>)
    IN  IF ~s1.ok \/ ~secure THEN s1 ELSE delete_credentials(s1, account_id)

\* Some(10000) of empty_folder
EmptyFolderLimit == 10000

RECURSIVE delete_all(_, _, _)
delete_all(s, folder_name, emails) ==
    IF emails = <<>> THEN [s EXCEPT !.ok = TRUE]
    ELSE LET s1 == client_delete_email(s, folder_name, Head(emails).uid)
         IN  IF ~s1.ok THEN s1 ELSE delete_all(s1, folder_name, Tail(emails))

empty_folder_run(s, account_id, folder_name) ==
    LET s1 == Connected(s, account_id)
    IN  IF ~s1.ok THEN s1 ELSE
        LET s2 == client_fetch_emails(s1, folder_name, EmptyFolderLimit)
        IN  IF ~s2.ok THEN s2 ELSE
            LET s3 == delete_all(s2, folder_name, s2.out)
            IN  IF ~s3.ok THEN s3 ELSE
                LET s4 == client_disconnect(s3)
                IN  IF ~s4.ok THEN s4 ELSE
                    Execute(s4, Stmt("DELETE_EMAILS_OF_FOLDER",
                                     FolderId(account_id, folder_name), <<>>, <<>>))


(* ------------------------------------------------------------------ *)
(* State                                                               *)
(* ------------------------------------------------------------------ *)

VARIABLES
    accounts,   \* the accounts table: the ids of its rows
    creds,      \* the credential store: the account ids with a password
    folders,    \* the folders table
    emails,     \* the emails table
    remote,     \* account id -> the mailbox of its IMAP server
    last,       \* the last command: its arguments, steps and result
    ncalls,     \* number of commands invoked so far
    nfaults,    \* number of commands an external fault was injected into
    codec,      \* an identifier on its way through format! and the decoding
    IMAP_CLIENTS, \* the global map of imap_commands.rs: account id -> ImapClient
    mutex,      \* the task that holds the Mutex around IMAP_CLIENTS
    tasks,      \* task -> the command it executes and its position
    imap_client, \* an ImapClient on its own: whether it holds a session
    credentials_enc \* the file credentials.enc

vars == <<accounts, creds, folders, emails, remote, last, ncalls, nfaults, codec,
          IMAP_CLIENTS, mutex, tasks, imap_client, credentials_enc>>

Cache == [accounts |-> accounts, creds |-> creds, folders |-> folders, emails |-> emails]

\* the mailbox of the server: INBOX holds UIDs 10, 11, 12; Work holds UIDs 1, 3, 4,
\* so that a UID is, is not, or wrongly is a sequence number of its folder
Mailbox1 ==
    (INBOX :> << Msg(10, FALSE, FALSE, FALSE), Msg(11, FALSE, FALSE, FALSE),
                 Msg(12, FALSE, FALSE, FALSE) >>)
    @@ (WORK :> << Msg(1, FALSE, FALSE, FALSE), Msg(3, FALSE, FALSE, FALSE),
                   Msg(4, FALSE, FALSE, FALSE) >>)

NoCall ==
    [op |-> "none", account_id |-> <<>>, folder_name |-> <<>>, new_name |-> <<>>,
     email_ids |-> <<>>, ok |-> TRUE, log |-> <<>>, faulted |-> FALSE,
     issued |-> <<>>,
     succeeded |-> <<>>, limit |-> 0, out |-> <<>>, renamed |-> NoFolder,
     named |-> <<>>,
     pre |-> [T |-> [accounts |-> {}, creds |-> {}, folders |-> {}, emails |-> {}],
              mb |-> <<>>]]

\* the cache once save_account_secure has stored the account and its password
Fresh == [accounts |-> {ACCT1}, creds |-> {ACCT1}, folders |-> {}, emails |-> {}]

\* the cache once the folders of the account have been synchronised as well
Synced == sync_folders_run(NewSession(Mailbox1, Fresh, 0), ACCT1, TRUE).T

NoCodec == [stage |-> "none"]

\* ImapClient::new(config): session: None
new == [conn |-> FALSE, sel |-> NoFolder]

\* credentials.enc does not exist
NoFile == [exists |-> FALSE]

Tasks == {"t1", "t2"}

NoTask == "none"

NoAction == ""

\* a task that executes no command; op, account_id and ok are those of the
\* command it executed last, action the action of its MarkEmailRequest, found
\* whether get_mut found a client, issued the exchanges it had with the server
Idle(op, account_id, ok) ==
    [pc |-> "idle", op |-> op, account_id |-> account_id, ok |-> ok, todo |-> <<>>,
     client |-> <<>>, action |-> NoAction, found |-> FALSE, issued |-> <<>>]

\* LazyLock::new(|| Mutex::new(HashMap::new())), no command under way
NoImap ==
    /\ IMAP_CLIENTS = <<>>
    /\ mutex = NoTask
    /\ tasks = [t \in Tasks |-> Idle("none", <<>>, TRUE)]

Init ==
    /\ \E T \in {Fresh, Synced} :
          /\ accounts = T.accounts
          /\ creds = T.creds
          /\ folders = T.folders
          /\ emails = T.emails
    /\ remote = (ACCT1 :> Mailbox1)
    /\ last = NoCall
    /\ ncalls = 0
    /\ nfaults = 0
    /\ codec = NoCodec
    /\ NoImap
    /\ imap_client = new
    /\ credentials_enc = NoFile

Accounts == DOMAIN remote

FolderNames == {INBOX, WORK, OLD}

\* 0: no fault; k: the k-th step of the command fails
Faults == IF nfaults < MaxFaults THEN 0..MaxFaultAt ELSE {0}

BAD1 == <<"x">>
BAD2 == <<"a", "-", "I", "-", "x">>
BAD3 == <<"3">>

\* the batches of identifiers the bulk actions are invoked with
Batches ==
    { << EmailId(ACCT1, INBOX, 10), EmailId(ACCT1, INBOX, 99) >>,
      << EmailId(ACCT1, WORK, 1), BAD1 >>,
      << BAD2, EmailId(ACCT1, WORK, 3) >>,
      << EmailId(ACCT1, WORK, 1), EmailId(ACCT1, WORK, 4) >>,
      << >> }

\* the batches move_emails_to_folder is invoked with
MoveBatches ==
    { << EmailId(ACCT1, WORK, 1), BAD1 >>,
      << EmailId(ACCT1, WORK, 1), EmailId(ACCT1, WORK, 4) >>,
      << BAD3 >>,
      << >> }

Limits == {DefaultLimit, 2}

\* a command starts on the mailbox of the account's server and on the cache
Start(account_id, fault) == NewSession(remote[account_id], Cache, fault)

\* The behaviours explored do not continue after a command that changed
\* neither the cache nor the mailbox: the state it leaves is the one before it.
Effective ==
    IF last.op = "none" THEN TRUE
    ELSE (last.pre.T # Cache) \/ (last.pre.mb # remote[last.account_id])

\* the external fault hit one of the steps the command made
Faulted(s) == s.failAt \in 1..Len(s.log)

\* a command returns: its effects and its record; limit and out are the limit
\* a fetch was invoked with and the emails it returned, renamed the name that
\* the command before this one gave to a folder
ReturnFrom(op, account_id, folder_name, new_name, email_ids, limit, s) ==
    /\ ncalls < MaxCmds
    /\ Effective
    /\ ncalls' = ncalls + 1
    /\ UNCHANGED <<codec, IMAP_CLIENTS, mutex, tasks, imap_client, credentials_enc>>
    /\ nfaults' = IF Faulted(s) THEN nfaults + 1 ELSE nfaults
    /\ accounts' = s.T.accounts
    /\ creds' = s.T.creds
    /\ folders' = s.T.folders
    /\ emails' = s.T.emails
    /\ remote' = [remote EXCEPT ![account_id] = s.mb]
    /\ last' = [op |-> op, account_id |-> account_id, folder_name |-> folder_name,
                new_name |-> new_name, email_ids |-> email_ids, ok |-> s.ok,
                log |-> s.log, faulted |-> Faulted(s), issued |-> s.issued,
                succeeded |-> s.succeeded, limit |-> limit,
                out |-> IF limit = 0 THEN <<>> ELSE s.out,
                renamed |-> IF last.op = "rename_folder" /\ last.ok
                            THEN last.new_name ELSE NoFolder,
                named |-> s.named,
                pre |-> [T |-> Cache, mb |-> remote[account_id]]]

Return(op, account_id, folder_name, new_name, email_ids, s) ==
    ReturnFrom(op, account_id, folder_name, new_name, email_ids, 0, s)

create_folder(account_id, folder_name, fault) ==
    Return("create_folder", account_id, folder_name, <<>>, <<>>,
           create_folder_run(Start(account_id, fault), account_id, folder_name))

rename_folder(account_id, folder_name, new_name, fault) ==
    Return("rename_folder", account_id, folder_name, new_name, <<>>,
           rename_folder_run(Start(account_id, fault), account_id, folder_name, new_name))

delete_folder(account_id, folder_name, fault) ==
    Return("delete_folder", account_id, folder_name, <<>>, <<>>,
           delete_folder_run(Start(account_id, fault), account_id, folder_name))

move_emails_to_folder(account_id, source_folder, target_folder, email_ids, fault) ==
    Return("move_emails_to_folder", account_id, source_folder, target_folder, email_ids,
           move_emails_to_folder_run(Start(account_id, fault), account_id, source_folder,
                                     target_folder, email_ids))

empty_folder(account_id, folder_name, fault) ==
    Return("empty_folder", account_id, folder_name, <<>>, <<>>,
           empty_folder_run(Start(account_id, fault), account_id, folder_name))

mark_emails_as_read(account_id, email_ids, fault) ==
    Return("mark_emails_as_read", account_id, <<>>, <<>>, email_ids,
           bulk_run(Start(account_id, fault), account_id, email_ids, "read"))

mark_emails_as_unread(account_id, email_ids, fault) ==
    Return("mark_emails_as_unread", account_id, <<>>, <<>>, email_ids,
           bulk_run(Start(account_id, fault), account_id, email_ids, "unread"))

delete_emails(account_id, email_ids, fault) ==
    Return("delete_emails", account_id, <<>>, <<>>, email_ids,
           bulk_run(Start(account_id, fault), account_id, email_ids, "delete"))

star_emails(account_id, email_ids, fault) ==
    Return("star_emails", account_id, <<>>, <<>>, email_ids,
           star_run(Start(account_id, fault), email_ids, "star"))

unstar_emails(account_id, email_ids, fault) ==
    Return("unstar_emails", account_id, <<>>, <<>>, email_ids,
           star_run(Start(account_id, fault), email_ids, "unstar"))

fetch_emails_secure(account_id, folder_name, limit, fault) ==
    ReturnFrom("fetch_emails_secure", account_id, folder_name, <<>>, <<>>, limit,
           fetch_emails_run(Start(account_id, fault), account_id, folder_name, limit, TRUE))

sync_folders_secure(account_id, fault) ==
    Return("sync_folders_secure", account_id, <<>>, <<>>, <<>>,
           sync_folders_run(Start(account_id, fault), account_id, TRUE))

delete_account(account_id, fault) ==
    Return("delete_account", account_id, <<>>, <<>>, <<>>,
           delete_account_run(Start(account_id, fault), account_id, FALSE))

delete_account_secure(account_id, fault) ==
    Return("delete_account_secure", account_id, <<>>, <<>>, <<>>,
           delete_account_run(Start(account_id, fault), account_id, TRUE))

Next ==
    \/ \E a \in Accounts, f \in FolderNames, k \in Faults : create_folder(a, f, k)
    \/ \E a \in Accounts, f \in FolderNames, g \in FolderNames \cup {RENAMED_INBOX},
          k \in Faults :
          f # g /\ rename_folder(a, f, g, k)
    \/ \E a \in Accounts, f \in FolderNames \cup {MYSENT, RENAMED_INBOX}, k \in Faults :
          delete_folder(a, f, k)
    \/ \E a \in Accounts, f \in FolderNames, g \in FolderNames, b \in MoveBatches,
          k \in Faults :
          f # g /\ move_emails_to_folder(a, f, g, b, k)
    \/ \E a \in Accounts, f \in FolderNames, k \in Faults : empty_folder(a, f, k)
    \/ \E a \in Accounts, b \in Batches, k \in Faults : mark_emails_as_read(a, b, k)
    \/ \E a \in Accounts, b \in Batches, k \in Faults : mark_emails_as_unread(a, b, k)
    \/ \E a \in Accounts, b \in Batches, k \in Faults : delete_emails(a, b, k)
    \/ \E a \in Accounts, b \in Batches, k \in Faults : star_emails(a, b, k)
    \/ \E a \in Accounts, b \in Batches, k \in Faults : unstar_emails(a, b, k)
    \/ \E a \in Accounts, f \in FolderNames, n \in Limits, k \in Faults :
          fetch_emails_secure(a, f, n, k)
    \/ \E a \in Accounts, k \in Faults : sync_folders_secure(a, k)
    \/ \E a \in Accounts, k \in Faults : delete_account(a, k)
    \/ \E a \in Accounts, k \in Faults : delete_account_secure(a, k)

Spec == Init /\ [][Next]_vars

(* ------------------------------------------------------------------ *)
(* The identifier codec on its own: an identifier is built by fetch    *)
(* from an (account, folder, uid) triple and decoded by a bulk action  *)
(* ------------------------------------------------------------------ *)

\* the triples: account ids and folder names without '-', the empty string
\* included, and uids of one to ten digits
CodecAccounts == {ACCT1, <<"a">>, <<"x", "1">>, <<>>}

CodecFolders == {INBOX, WORK, OLD, <<"x">>, <<>>}

CodecUids == {0, 1, 9, 10, 99, 100, 2147483647}

InitCodec ==
    /\ accounts = {}
    /\ creds = {}
    /\ folders = {}
    /\ emails = {}
    /\ remote = <<>>
    /\ last = NoCall
    /\ ncalls = 0
    /\ nfaults = 0
    /\ NoImap
    /\ imap_client = new
    /\ credentials_enc = NoFile
    /\ \E a \in CodecAccounts, f \in CodecFolders, u \in CodecUids :
          codec = [stage |-> "triple", account_id |-> a, folder_name |-> f, uid |-> u]

\* let email_id = format!("{}-{}-{}", account_id, folder_name, email.uid)
format_email_id ==
    /\ codec.stage = "triple"
    /\ codec' = [stage |-> "formatted", account_id |-> codec.account_id,
                 folder_name |-> codec.folder_name, uid |-> codec.uid,
                 email_id |-> EmailId(codec.account_id, codec.folder_name, codec.uid)]
    /\ UNCHANGED <<accounts, creds, folders, emails, remote, last, ncalls, nfaults>>
    /\ UNCHANGED <<IMAP_CLIENTS, mutex, tasks, imap_client, credentials_enc>>

\* the decoding at the head of the loop of a bulk action
decode_email_id ==
    /\ codec.stage = "formatted"
    /\ codec' = [stage |-> "decoded", account_id |-> codec.account_id,
                 folder_name |-> codec.folder_name, uid |-> codec.uid,
                 email_id |-> codec.email_id, decoded |-> Decode(codec.email_id)]
    /\ UNCHANGED <<accounts, creds, folders, emails, remote, last, ncalls, nfaults>>
    /\ UNCHANGED <<IMAP_CLIENTS, mutex, tasks, imap_client, credentials_enc>>

NextCodec == format_email_id \/ decode_email_id

SpecCodec == InitCodec /\ [][NextCodec]_vars

(* ------------------------------------------------------------------ *)
(* Two accounts whose folders are synchronised and created: the        *)
(* folders table holds the rows of both                                *)
(* ------------------------------------------------------------------ *)

\* variant of the account ids: strings of any length
AnyLength == {<<"a">>, <<"a", "-", "b">>}

\* uuid::Uuid::new_v4().to_string(), the ids save_account_secure and
\* save_account give to accounts: hyphenated strings that all have one
\* length (36 characters; 3 here)
new_v4 == {<<"a", "-", "b">>, <<"a", "-", "c">>}

B_INBOX == <<"b", "-", "I", "N", "B", "O", "X">>
B_OLD == <<"b", "-", "O", "l", "d">>

\* a mailbox with a folder whose name contains '-'
Mailbox2 ==
    (INBOX :> << Msg(10, FALSE, FALSE, FALSE) >>) @@ (B_INBOX :> << >>)

\* the names create_folder is invoked with
CreatedNames == {OLD, B_OLD}

\* save_account_secure has stored two accounts
InitAccounts ==
    /\ accounts = new_v4
    /\ creds = new_v4
    /\ folders = {}
    /\ emails = {}
    /\ remote = [a \in new_v4 |-> Mailbox2]
    /\ last = NoCall
    /\ ncalls = 0
    /\ nfaults = 0
    /\ codec = NoCodec
    /\ NoImap
    /\ imap_client = new
    /\ credentials_enc = NoFile

NextAccounts ==
    \/ \E a \in Accounts, k \in Faults : sync_folders_secure(a, k)
    \/ \E a \in Accounts, f \in CreatedNames, k \in Faults : create_folder(a, f, k)

SpecAccounts == InitAccounts /\ [][NextAccounts]_vars

\* the identifier fetch_emails_secure gives the message of INBOX, for each of
\* the two accounts
FetchedIds == {<<EmailId(a, INBOX, 10)>> : a \in new_v4}

\* the commands that cache an email and that act on cached emails by
\* identifier, for accounts saved by save_account_secure
NextFetched ==
    \/ \E a \in Accounts, n \in Limits, k \in Faults : fetch_emails_secure(a, INBOX, n, k)
    \/ \E a \in Accounts, b \in FetchedIds, k \in Faults : mark_emails_as_read(a, b, k)
    \/ \E a \in Accounts, b \in FetchedIds, k \in Faults : mark_emails_as_unread(a, b, k)
    \/ \E a \in Accounts, b \in FetchedIds, k \in Faults : delete_emails(a, b, k)

SpecFetched == InitAccounts /\ [][NextFetched]_vars

(* ------------------------------------------------------------------ *)
(* The imap_* commands (imap_commands.rs), executed by concurrent      *)
(* tasks.  Every command locks the one Mutex around IMAP_CLIENTS on    *)
(* entry and holds the guard until it returns.  A command is a         *)
(* sequence of request-response exchanges with the server of its       *)
(* account; between the request and the response the task is blocked.  *)
(* ------------------------------------------------------------------ *)

\* number of imap_* commands invoked in one behaviour
MaxImapCalls == 4

ImapAccounts == {ACCT1, ACCT2}

\* the actions imap_mark_email is invoked with: those the comment on
\* MarkEmailRequest lists, and one it does not list
MarkActions == {"read", "unread", "starred", "unstarred", "delete", "archive"}

\* variant of the lock in which a task never has to wait
Unlocked(t) == TRUE

\* IMAP_CLIENTS.lock(): returns once no other task holds the guard
CanLock(t) == mutex = NoTask

Running(t, op, account_id, todo, client) ==
    [pc |-> "send", op |-> op, account_id |-> account_id, ok |-> TRUE, todo |-> todo,
     client |-> client, action |-> NoAction, found |-> FALSE, issued |-> <<>>]

Exchange(c, f, n, flag) == [c |-> c, f |-> f, n |-> n, flag |-> flag]

\* a command enters: the task is free, and lock() has returned
Enter(t) ==
    /\ tasks[t].pc = "idle"
    /\ ncalls < MaxImapCalls
    /\ CanLock(t)
    /\ ncalls' = ncalls + 1
    /\ UNCHANGED <<accounts, creds, folders, emails, remote, last, nfaults, codec>>
    /\ UNCHANGED <<imap_client, credentials_enc>>

\* a command returns at once, the guard dropped
ReturnAtOnce(t, op, account_id, ok) ==
    /\ tasks' = [tasks EXCEPT ![t] = Idle(op, account_id, ok)]
    /\ UNCHANGED <<IMAP_CLIENTS, mutex>>

imap_connect(t, account_id) ==
    /\ Enter(t)
    /\ mutex' = t
    /\ tasks' = [tasks EXCEPT ![t] =
                    Running(t, "imap_connect", account_id,
                            <<Exchange("CONNECT", <<>>, 0, <<>>)>>,
                            NewSession(remote[account_id], Cache, 0))]
    /\ UNCHANGED IMAP_CLIENTS

\* variant of imap_disconnect: the client is looked up with get_mut and stays
\* in the map
disconnect_kept(t, account_id) ==
    /\ Enter(t)
    /\ IF account_id \in DOMAIN IMAP_CLIENTS
       THEN /\ mutex' = t
            /\ UNCHANGED IMAP_CLIENTS
            /\ tasks' = [tasks EXCEPT ![t] =
                            Running(t, "imap_disconnect", account_id,
                                    <<Exchange("LOGOUT", <<>>, 0, <<>>)>>,
                                    IMAP_CLIENTS[account_id])]
       ELSE ReturnAtOnce(t, "imap_disconnect", account_id, TRUE)

imap_disconnect(t, account_id) ==
    /\ Enter(t)
    /\ IF account_id \in DOMAIN IMAP_CLIENTS
       THEN /\ mutex' = t
            /\ IMAP_CLIENTS' = [a \in DOMAIN IMAP_CLIENTS \ {account_id} |-> IMAP_CLIENTS[a]]
            /\ tasks' = [tasks EXCEPT ![t] =
                            Running(t, "imap_disconnect", account_id,
                                    <<Exchange("LOGOUT", <<>>, 0, <<>>)>>,
                                    IMAP_CLIENTS[account_id])]
       ELSE ReturnAtOnce(t, "imap_disconnect", account_id, TRUE)

\* clients.get_mut(&account_id).ok_or("No connection found for account")?,
\* then the method of the client, which begins with the exchanges todo
WithClient(t, op, account_id, action, todo) ==
    LET found == account_id \in DOMAIN IMAP_CLIENTS
    IN  IF found /\ todo # <<>>
        THEN /\ mutex' = t
             /\ tasks' = [tasks EXCEPT ![t] =
                             [Running(t, op, account_id, todo, <<>>)
                                 EXCEPT !.action = action, !.found = TRUE]]
             /\ UNCHANGED IMAP_CLIENTS
        ELSE /\ tasks' = [tasks EXCEPT ![t] =
                             [Idle(op, account_id, FALSE)
                                 EXCEPT !.action = action, !.found = found]]
             /\ UNCHANGED <<IMAP_CLIENTS, mutex>>

imap_list_folders(t, account_id) ==
    /\ Enter(t)
    /\ WithClient(t, "imap_list_folders", account_id, NoAction,
                  <<Exchange("LIST", <<>>, 0, <<>>)>>)

imap_fetch_emails(t, account_id, folder, limit) ==
    /\ Enter(t)
    /\ WithClient(t, "imap_fetch_emails", account_id, NoAction,
                  << Exchange("SELECT", folder, 0, <<>>),
                     Exchange("FETCH", folder, limit, <<>>) >>)

imap_mark_email(t, account_id, folder, uid, action) ==
    /\ Enter(t)
    /\ WithClient(t, "imap_mark_email", account_id, action,
                  CASE action = "read" ->
                          << Exchange("SELECT", folder, 0, <<>>),
                             Exchange("STORE", folder, uid, "Seen") >>
                    [] action = "starred" ->
                          << Exchange("SELECT", folder, 0, <<>>),
                             Exchange("STORE", folder, uid, "Flagged") >>
                    [] action = "delete" ->
                          << Exchange("SELECT", folder, 0, <<>>),
                             Exchange("STORE", folder, uid, "Deleted"),
                             Exchange("EXPUNGE", folder, 0, <<>>) >>
                    [] OTHER -> <<>>)

\* the task writes the request of its next exchange and blocks on the answer
request(t) ==
    /\ tasks[t].pc = "send"
    /\ tasks' = [tasks EXCEPT ![t].pc = "wait",
                              ![t].issued = Append(@, Head(tasks[t].todo))]
    /\ UNCHANGED <<accounts, creds, folders, emails, remote, last, ncalls, nfaults, codec>>
    /\ UNCHANGED <<imap_client, credentials_enc>>
    /\ UNCHANGED <<IMAP_CLIENTS, mutex>>

\* the exchange x made on the client s
Exchanged(s, x) ==
    CASE x.c = "CONNECT" -> client_connect(s)
      [] x.c = "LOGOUT" -> client_disconnect(s)
      [] x.c = "LIST" -> List(s)
      [] x.c = "SELECT" -> Select(s, x.f)
      [] x.c = "FETCH" -> fetch_selected(s, x.f, x.n)
      [] x.c = "STORE" -> Store(s, x.n, x.flag, TRUE)
      [] x.c = "EXPUNGE" -> Expunge(s)

\* the client a task works on: its own in imap_connect and imap_disconnect,
\* the one of the map in the other commands
OwnClient(t) == tasks[t].op \in {"imap_connect", "imap_disconnect"}

\* the answer arrives, or the exchange fails (fails = TRUE); the command goes
\* on to its next exchange, or returns and drops the guard
response(t, fails) ==
    /\ tasks[t].pc = "wait"
    /\ LET account_id == tasks[t].account_id
           s == IF OwnClient(t) THEN tasks[t].client ELSE IMAP_CLIENTS[account_id]
           s0 == [s EXCEPT !.mb = remote[account_id],
                           !.failAt = IF fails THEN Len(s.log) + 1 ELSE 0]
           s1 == Exchanged(s0, Head(tasks[t].todo))
           rest == Tail(tasks[t].todo)
           returns == ~s1.ok \/ rest = <<>>
       IN  /\ remote' = [remote EXCEPT ![account_id] = s1.mb]
           /\ IMAP_CLIENTS' =
                 IF tasks[t].op = "imap_connect"
                 THEN IF s1.ok
                      THEN [a \in DOMAIN IMAP_CLIENTS \cup {account_id} |->
                               IF a = account_id THEN s1 ELSE IMAP_CLIENTS[a]]
                      ELSE IMAP_CLIENTS
                 ELSE IF tasks[t].op = "imap_disconnect" THEN IMAP_CLIENTS
                 ELSE [IMAP_CLIENTS EXCEPT ![account_id] = s1]
           /\ mutex' = IF returns /\ mutex = t THEN NoTask ELSE mutex
           /\ tasks' = [tasks EXCEPT ![t] =
                           [IF returns THEN Idle(tasks[t].op, account_id, s1.ok)
                            ELSE Running(t, tasks[t].op, account_id, rest,
                                         IF OwnClient(t) THEN s1 ELSE <<>>)
                               EXCEPT !.action = tasks[t].action,
                                      !.found = tasks[t].found,
                                      !.issued = tasks[t].issued]]
    /\ UNCHANGED <<accounts, creds, folders, emails, last, ncalls, nfaults, codec>>
    /\ UNCHANGED <<imap_client, credentials_enc>>

InitImap ==
    /\ accounts = {}
    /\ creds = {}
    /\ folders = {}
    /\ emails = {}
    /\ remote = [a \in ImapAccounts |-> Mailbox1]
    /\ last = NoCall
    /\ ncalls = 0
    /\ nfaults = 0
    /\ codec = NoCodec
    /\ NoImap
    /\ imap_client = new
    /\ credentials_enc = NoFile

NextImap ==
    \/ \E t \in Tasks, a \in ImapAccounts : imap_connect(t, a)
    \/ \E t \in Tasks, a \in ImapAccounts : imap_disconnect(t, a)
    \/ \E t \in Tasks, a \in ImapAccounts : imap_list_folders(t, a)
    \/ \E t \in Tasks, a \in ImapAccounts, f \in {INBOX, OLD} :
          imap_fetch_emails(t, a, f, 2)
    \/ \E t \in Tasks, a \in ImapAccounts, action \in MarkActions :
          imap_mark_email(t, a, WORK, 3, action)
    \/ \E t \in Tasks : request(t)
    \/ \E t \in Tasks, fails \in BOOLEAN : response(t, fails)

SpecImap == InitImap /\ [][NextImap]_vars

(* ------------------------------------------------------------------ *)
(* One ImapClient on its own: the methods of imap_client.rs, called in *)
(* any order on one client of one server                               *)
(* ------------------------------------------------------------------ *)

\* number of method calls in one behaviour
MaxClientCalls == 4

\* the folders the methods are called with: Old is not on the server
ClientFolders == {INBOX, WORK, OLD}

\* the numbers passed as uid: 1 and 3 are UIDs of Work and sequence numbers of
\* both folders
ClientUids == {1, 3}

\* the client as a method finds it: its session, on the mailbox of the server
OnClient(fault) ==
    [NewSession(remote[ACCT1], Cache, fault) EXCEPT !.conn = imap_client.conn,
                                                    !.sel = imap_client.sel]

\* the messages (folder, UID) of which a COPY has succeeded in some call so far
CopiedSoFar == IF last.op = "none" THEN {} ELSE last.copied

\* a method returns: the client and the server as it leaves them, and the
\* record of the call; connected tells whether the client held a session when
\* the method was called
Called(op, folder, uid, dest, s) ==
    /\ ncalls < MaxClientCalls
    /\ ncalls' = ncalls + 1
    /\ nfaults' = IF Faulted(s) THEN nfaults + 1 ELSE nfaults
    /\ remote' = [remote EXCEPT ![ACCT1] = s.mb]
    /\ imap_client' = [conn |-> s.conn, sel |-> s.sel]
    /\ last' = [op |-> op, account_id |-> ACCT1, folder_name |-> folder,
                new_name |-> dest, uid |-> uid, ok |-> s.ok, out |-> s.out,
                log |-> s.log, faulted |-> Faulted(s),
                connected |-> imap_client.conn,
                copied |-> CopiedSoFar \cup
                           {<<folder, remote[ACCT1][folder][s.log[i].n].uid>> :
                               i \in {j \in 1..Len(s.log) :
                                         s.log[j].c = "COPY" /\ s.log[j].ok}},
                pre |-> [T |-> Cache, mb |-> remote[ACCT1]]]
    /\ UNCHANGED <<accounts, creds, folders, emails, codec, IMAP_CLIENTS, mutex, tasks,
                   credentials_enc>>

\* the program calls connect on a client it has just made
connect(fault) ==
    /\ ~imap_client.conn
    /\ Called("connect", NoFolder, 0, NoFolder, client_connect(OnClient(fault)))

disconnect(fault) ==
    Called("disconnect", NoFolder, 0, NoFolder, client_disconnect(OnClient(fault)))

list_folders(fault) ==
    Called("list_folders", NoFolder, 0, NoFolder, client_list_folders(OnClient(fault)))

select_folder(folder, fault) ==
    Called("select_folder", folder, 0, NoFolder,
           client_select_folder(OnClient(fault), folder))

fetch_emails(folder, limit, fault) ==
    Called("fetch_emails", folder, 0, NoFolder,
           client_fetch_emails(OnClient(fault), folder, limit))

mark_as_read(folder, uid, fault) ==
    Called("mark_as_read", folder, uid, NoFolder,
           client_mark_as_read(OnClient(fault), folder, uid))

mark_as_unread(folder, uid, fault) ==
    Called("mark_as_unread", folder, uid, NoFolder,
           client_mark_as_unread(OnClient(fault), folder, uid))

mark_as_starred(folder, uid, fault) ==
    Called("mark_as_starred", folder, uid, NoFolder,
           client_mark_as_starred(OnClient(fault), folder, uid))

delete_email(folder, uid, fault) ==
    Called("delete_email", folder, uid, NoFolder,
           client_delete_email(OnClient(fault), folder, uid))

move_email(folder, uid, dest_folder, fault) ==
    Called("move_email", folder, uid, dest_folder,
           client_move_email(OnClient(fault), folder, uid, dest_folder))

InitClient ==
    /\ accounts = {}
    /\ creds = {}
    /\ folders = {}
    /\ emails = {}
    /\ remote = (ACCT1 :> Mailbox1)
    /\ last = NoCall
    /\ ncalls = 0
    /\ nfaults = 0
    /\ codec = NoCodec
    /\ NoImap
    /\ imap_client = new
    /\ credentials_enc = NoFile

\* the steps of a method that a fault can hit
ClientFaults == IF nfaults < MaxFaults THEN 0..4 ELSE {0}

NextClient ==
    \/ \E k \in ClientFaults : connect(k)
    \/ \E k \in ClientFaults : disconnect(k)
    \/ \E k \in ClientFaults : list_folders(k)
    \/ \E f \in ClientFolders, k \in ClientFaults : select_folder(f, k)
    \/ \E f \in ClientFolders, k \in ClientFaults : fetch_emails(f, 2, k)
    \/ \E f \in ClientFolders, u \in ClientUids, k \in ClientFaults : mark_as_read(f, u, k)
    \/ \E f \in ClientFolders, u \in ClientUids, k \in ClientFaults : mark_as_unread(f, u, k)
    \/ \E f \in ClientFolders, u \in ClientUids, k \in ClientFaults :
          mark_as_starred(f, u, k)
    \/ \E f \in ClientFolders, u \in ClientUids, k \in ClientFaults : delete_email(f, u, k)
    \/ \E f \in ClientFolders, u \in ClientUids, g \in ClientFolders, k \in ClientFaults :
          f # g /\ move_email(f, u, g, k)

SpecClient == InitClient /\ [][NextClient]_vars

(* ------------------------------------------------------------------ *)
(* The credential store (credentials.rs): store_credentials,           *)
(* retrieve_credentials and delete_credentials, called by commands     *)
(* that run as concurrent tasks. Each call reads credentials.enc into  *)
(* a CredentialStore of its own and, but for retrieve, writes it back; *)
(* no lock is held between the read and the write.                     *)
(* ------------------------------------------------------------------ *)

\* number of calls in one behaviour
MaxCredCalls == 4

CredAccounts == {ACCT1, ACCT2}

\* the password of the account in config.imap_config.password
Password(account_id) == <<"p", "w">> \o account_id

NoStore == [encrypted_passwords |-> <<>>, encryption_key |-> 0]

\* CredentialStore::load_or_create: the content of the file, or a new store
\* with a key of its own (key) when the file does not exist
load_or_create(key) ==
    IF credentials_enc.exists
    THEN [encrypted_passwords |-> credentials_enc.encrypted_passwords,
          encryption_key |-> credentials_enc.encryption_key]
    ELSE [encrypted_passwords |-> <<>>, encryption_key |-> key]

\* encrypt_password: the entry of the account becomes the password under the
\* key of the store
encrypt_password(store, account_id, password) ==
    [store EXCEPT !.encrypted_passwords =
        [a \in DOMAIN @ \cup {account_id} |->
            IF a = account_id THEN [key |-> store.encryption_key, password |-> password]
            ELSE @[a]]]

\* decrypt_password: the entry must exist and open under the key of the store
decrypt_password(store, account_id) ==
    IF account_id \notin DOMAIN store.encrypted_passwords
    THEN [ok |-> FALSE, password |-> <<>>]
    ELSE IF store.encrypted_passwords[account_id].key # store.encryption_key
         THEN [ok |-> FALSE, password |-> <<>>]
         ELSE [ok |-> TRUE, password |-> store.encrypted_passwords[account_id].password]

remove_password(store, account_id) ==
    [store EXCEPT !.encrypted_passwords =
        [a \in DOMAIN @ \ {account_id} |-> @[a]]]

\* a task outside any call, with the result of its last one
Returned(op, account_id, ok, out) ==
    [pc |-> "idle", op |-> op, account_id |-> account_id, ok |-> ok, out |-> out,
     store |-> NoStore]

\* a call starts with load_or_create; the key a new store would draw is one no
\* other store has
Loaded(t, op, account_id) ==
    /\ tasks[t].pc = "idle"
    /\ ncalls < MaxCredCalls
    /\ ncalls' = ncalls + 1
    /\ tasks' = [tasks EXCEPT ![t] =
                    [pc |-> "loaded", op |-> op, account_id |-> account_id, ok |-> TRUE,
                     out |-> <<>>, store |-> load_or_create(ncalls + 1)]]
    /\ UNCHANGED <<accounts, creds, folders, emails, remote, last, nfaults, codec,
                   IMAP_CLIENTS, mutex, imap_client, credentials_enc>>

\* store_credentials up to the return of load_or_create
store_credentials(t, account_id) == Loaded(t, "store_credentials", account_id)

\* delete_credentials up to the return of load_or_create
delete_credentials_begin(t, account_id) == Loaded(t, "delete_credentials", account_id)

\* the rest of store_credentials and delete_credentials: the store is changed
\* in memory and written over the file; creds holds the accounts whose password
\* a returned call has stored and none has deleted since
save(t) ==
    /\ tasks[t].pc = "loaded"
    /\ LET account_id == tasks[t].account_id
           store == IF tasks[t].op = "store_credentials"
                    THEN encrypt_password(tasks[t].store, account_id, Password(account_id))
                    ELSE remove_password(tasks[t].store, account_id)
       IN  /\ credentials_enc' = [exists |-> TRUE,
                                  encrypted_passwords |-> store.encrypted_passwords,
                                  encryption_key |-> store.encryption_key]
           /\ creds' = IF tasks[t].op = "store_credentials"
                       THEN creds \cup {account_id} ELSE creds \ {account_id}
           /\ tasks' = [tasks EXCEPT ![t] = Returned(tasks[t].op, account_id, TRUE, <<>>)]
    /\ UNCHANGED <<accounts, folders, emails, remote, last, ncalls, nfaults, codec,
                   IMAP_CLIENTS, mutex, imap_client>>

\* retrieve_credentials: load_or_create, then decrypt_password
retrieve_credentials(t, account_id) ==
    /\ tasks[t].pc = "idle"
    /\ ncalls < MaxCredCalls
    /\ ncalls' = ncalls + 1
    /\ LET r == decrypt_password(load_or_create(ncalls + 1), account_id)
       IN  tasks' = [tasks EXCEPT ![t] =
                        Returned("retrieve_credentials", account_id, r.ok, r.password)]
    /\ UNCHANGED <<accounts, creds, folders, emails, remote, last, nfaults, codec,
                   IMAP_CLIENTS, mutex, imap_client, credentials_enc>>

InitCred ==
    /\ accounts = {}
    /\ creds = {}
    /\ folders = {}
    /\ emails = {}
    /\ remote = <<>>
    /\ last = NoCall
    /\ ncalls = 0
    /\ nfaults = 0
    /\ codec = NoCodec
    /\ IMAP_CLIENTS = <<>>
    /\ mutex = NoTask
    /\ tasks = [t \in Tasks |-> Returned("none", <<>>, TRUE, <<>>)]
    /\ imap_client = new
    /\ credentials_enc = NoFile

NextCred ==
    \/ \E t \in Tasks, a \in CredAccounts : store_credentials(t, a)
    \/ \E t \in Tasks, a \in CredAccounts : delete_credentials_begin(t, a)
    \/ \E t \in Tasks : save(t)
    \/ \E t \in Tasks, a \in CredAccounts : retrieve_credentials(t, a)

SpecCred == InitCred /\ [][NextCred]_vars

(* ------------------------------------------------------------------ *)
(* Properties                                                          *)
(* ------------------------------------------------------------------ *)

\* the steps of the last command that are remote folder commands, cache
\* writes, steps of a transaction
FolderCommands == {"CREATE", "RENAME", "DELETE"}

CacheWrites ==
    {"INSERT_FOLDER", "REPLACE_FOLDER", "UPDATE_FOLDER_ID", "UPDATE_EMAILS_FOLDER",
     "DELETE_EMAILS_OF_FOLDER", "DELETE_FOLDER", "REPLACE_EMAIL", "UPDATE_EMAILS_READ",
     "UPDATE_EMAILS_STARRED", "UPDATE_EMAILS_FOLDER_IN", "DELETE_EMAILS_IN",
     "DELETE_EMAILS_OF_ACCOUNT", "DELETE_FOLDERS_OF_ACCOUNT", "DELETE_ACCOUNT",
     "DELETE_CREDS"}

\* the last command made a step of one of the kinds cs that failed
Failed(cs) == \E i \in 1..Len(last.log) : last.log[i].c \in cs /\ ~last.log[i].ok

LastAccount == last.account_id

LastMailbox == remote[last.account_id]

IsFolderOp == last.op \in {"create_folder", "rename_folder", "delete_folder"}

\* C1: in create_folder, rename_folder and delete_folder every cache write is
\* preceded by the successful remote folder command, and when the connection
\* or the remote command failed the command returns an error and the folders
\* and emails tables are as they were before the call.
C1_RemoteBeforeLocal ==
    IsFolderOp =>
        /\ \A i \in 1..Len(last.log) :
              last.log[i].c \in CacheWrites =>
                  \E j \in 1..(i - 1) :
                      last.log[j].c \in FolderCommands /\ last.log[j].ok
        /\ Failed({"CONNECT"} \cup FolderCommands) =>
              /\ ~last.ok
              /\ folders = last.pre.T.folders
              /\ emails = last.pre.T.emails

\* a rename that the server refused, of a folder whose row is cached
C1_Witness ==
    /\ last.op = "rename_folder"
    /\ Failed({"RENAME"})
    /\ ~last.ok
    /\ FolderId(LastAccount, last.folder_name) \in Ids(folders)

\* the names, among those delete_folder is invoked with, that contain
\* "inbox", "sent", "trash" or "drafts" whatever the case of their letters
EssentialNames ==
    { f \in FolderNames \cup {MYSENT} :
        \E w \in ProtectedWords :
            \E i \in 0..(Len(f) - Len(w)) :
                \A j \in 1..Len(w) : LowerChar(f[i + j]) = w[j] }

Designates(a, f) == {FolderId(a, f), f}

\* C3: after rename_folder(account, A, B) succeeded, every email that was cached
\* under folder A of the account references B, and no cached email of the
\* account references A any more.
C3_RenameRepointsEmails ==
    (last.op = "rename_folder" /\ last.ok) =>
        /\ \A e \in last.pre.T.emails :
              (e.account_id = LastAccount
                 /\ e.folder_id \in Designates(LastAccount, last.folder_name)) =>
                  \E r \in emails :
                      /\ r.id = e.id
                      /\ r.folder_id \in Designates(LastAccount, last.new_name)
        /\ \A r \in emails :
              r.account_id = LastAccount =>
                  r.folder_id \notin Designates(LastAccount, last.folder_name)

\* C4: each cached email's identifier embeds its uid field, and embeds the
\* name of the folder its folder_id designates.
C4_IdentifierMatchesFields ==
    \A e \in emails :
        \E f \in FolderNames :
            /\ e.id = EmailId(e.account_id, f, e.uid)
            /\ e.folder_id \in Designates(e.account_id, f)

TransactionSteps == {"BEGIN", "UPDATE_FOLDER_ID", "UPDATE_EMAILS_FOLDER", "COMMIT"}

OldFolderId == FolderId(LastAccount, last.folder_name)

NewFolderId == FolderId(LastAccount, last.new_name)

\* C5: when a step of the local transaction of rename_folder failed, no folder
\* row and no email row has changed; and rename_folder never leaves the folder
\* row under its new identifier while a cached email still references the old
\* identifier.
C5_RenameAllOrNothing ==
    last.op = "rename_folder" =>
        /\ Failed(TransactionSteps) =>
              /\ ~last.ok
              /\ folders = last.pre.T.folders
              /\ emails = last.pre.T.emails
        /\ ~ /\ OldFolderId \in Ids(last.pre.T.folders)
             /\ OldFolderId \notin Ids(folders)
             /\ NewFolderId \in Ids(folders)
             /\ \E e \in emails : e.folder_id = OldFolderId

\* the commit of a rename fails after the folder row and an email that
\* referenced it were both updated
C5_Witness ==
    /\ last.op = "rename_folder"
    /\ Failed({"COMMIT"})
    /\ OldFolderId \in Ids(folders)
    /\ \E e \in emails : e.folder_id = OldFolderId

AccountDeletes ==
    {"BEGIN", "DELETE_EMAILS_OF_ACCOUNT", "DELETE_FOLDERS_OF_ACCOUNT", "DELETE_ACCOUNT",
     "COMMIT"}

IsDeleteAccount == last.op \in {"delete_account", "delete_account_secure"}

\* C6: after delete_account / delete_account_secure succeeded no row of emails,
\* folders or accounts refers to the account; when one of the deletes or the
\* commit failed, the three tables are as they were before the call.
C6_AccountDeletedAsOneUnit ==
    IsDeleteAccount =>
        /\ last.ok =>
              /\ LastAccount \notin accounts
              /\ \A r \in folders : r.account_id # LastAccount
              /\ \A e \in emails : e.account_id # LastAccount
        /\ Failed(AccountDeletes) =>
              /\ ~last.ok
              /\ accounts = last.pre.T.accounts
              /\ folders = last.pre.T.folders
              /\ emails = last.pre.T.emails

\* the commit of an account deletion fails, the account having folders and emails
C6_Witness ==
    /\ IsDeleteAccount
    /\ Failed({"COMMIT"})
    /\ \E r \in folders : r.account_id = LastAccount
    /\ \E e \in emails : e.account_id = LastAccount

\* the UIDs that the identifiers of the batches carry
BatchUids == {1, 3, 4, 10, 99}

\* an identifier is well formed when it is account-folder-uid
WellFormed(email_id) ==
    \E f \in FolderNames, u \in BatchUids : email_id = EmailId(LastAccount, f, u)

\* the message that a well-formed identifier names is in mailbox mb / is
\* there and carries \Seen
Holds(mb, email_id) ==
    \E f \in FolderNames, u \in BatchUids :
        /\ email_id = EmailId(LastAccount, f, u)
        /\ f \in DOMAIN mb
        /\ \E k \in 1..Len(mb[f]) : mb[f][k].uid = u

HoldsSeen(mb, email_id) ==
    \E f \in FolderNames, u \in BatchUids :
        /\ email_id = EmailId(LastAccount, f, u)
        /\ f \in DOMAIN mb
        /\ \E k \in 1..Len(mb[f]) : mb[f][k].uid = u /\ mb[f][k].seen

Positions == 1..Len(last.email_ids)

\* C7: mark_emails_as_read over a batch with exactly one malformed identifier,
\* the others naming messages of the mailbox, returns success when no external
\* fault occurs, marks each of the others as read on the server and in the
\* cache, and issues no remote command for the malformed one.
C7_MalformedSkipped ==
    ( /\ last.op = "mark_emails_as_read"
      /\ ~last.faulted
      /\ LastAccount \in last.pre.T.accounts \cap last.pre.T.creds
      /\ Cardinality({i \in Positions : ~WellFormed(last.email_ids[i])}) = 1
      /\ \A i \in Positions :
            WellFormed(last.email_ids[i]) => Holds(last.pre.mb, last.email_ids[i]) ) =>
        /\ last.ok
        /\ \A i \in Positions :
              WellFormed(last.email_ids[i]) =>
                  /\ HoldsSeen(LastMailbox, last.email_ids[i])
                  /\ \A e \in emails : e.id = last.email_ids[i] => e.is_read
        /\ \A i \in Positions :
              ~WellFormed(last.email_ids[i]) => ~InBatch(last.email_ids[i], last.issued)

IsBulk ==
    last.op \in {"mark_emails_as_read", "mark_emails_as_unread", "delete_emails",
                 "move_emails_to_folder"}

\* C8: a bulk action (mark read, mark unread, delete, move) changes or deletes
\* a cached email only when the remote mutation of its identifier was issued
\* and returned success in that call.
C8_LocalOnlySucceeded ==
    IsBulk =>
        \A e \in last.pre.T.emails :
            e \notin emails => InBatch(e.id, last.succeeded)

\* a batch of two cached emails: the remote mutation of the first succeeded,
\* that of the second failed
C8_Witness ==
    /\ IsBulk
    /\ Len(last.succeeded) = 1
    /\ Len(last.issued) = 2
    /\ \A i \in Positions : last.email_ids[i] \in Ids(last.pre.T.emails)

Batch9 == << EmailId(ACCT1, INBOX, 10), EmailId(ACCT1, INBOX, 99) >>

Uids(msgs) == [i \in 1..Len(msgs) |-> msgs[i].uid]

Scenario9 ==
    /\ last.op = "delete_emails"
    /\ last.account_id = ACCT1
    /\ last.email_ids = Batch9
    /\ ACCT1 \in last.pre.T.accounts \cap last.pre.T.creds
    /\ INBOX \in DOMAIN last.pre.mb
    /\ Uids(last.pre.mb[INBOX]) = <<10, 11, 12>>

Uid10OnServer ==
    INBOX \in DOMAIN LastMailbox /\ \E k \in 1..Len(LastMailbox[INBOX]) : LastMailbox[INBOX][k].uid = 10

Uid10WasCached == EmailId(ACCT1, INBOX, 10) \in Ids(last.pre.T.emails)

Uid10Cached == EmailId(ACCT1, INBOX, 10) \in Ids(emails)

\* C9: with INBOX of acct1 holding UIDs 10, 11, 12, delete_emails of
\* [acct1-INBOX-10, acct1-INBOX-99] either fails as a whole, UID 10 staying on
\* the server and in the cache, or deletes UID 10 on the server and in the
\* cache with 99 recorded as failed; never is UID 10 deleted on one side only.
C9_DeleteBatchOutcome ==
    Scenario9 =>
        \/ /\ ~last.ok
           /\ Uid10OnServer
           /\ Uid10WasCached => Uid10Cached
        \/ /\ ~Uid10OnServer
           /\ ~Uid10Cached
           /\ InBatch(EmailId(ACCT1, INBOX, 99), last.issued)
           /\ ~InBatch(EmailId(ACCT1, INBOX, 99), last.succeeded)

\* the scenario with UID 10 cached, the server having refused a command
C9_Witness ==
    /\ Scenario9
    /\ Uid10WasCached
    /\ ~last.faulted
    /\ Failed({"STORE"})

\* C10: a command that connected a session attempts a LOGOUT on it before it
\* returns.
C10_DisconnectAlwaysAttempted ==
    \A i \in 1..Len(last.log) :
        (last.log[i].c = "CONNECT" /\ last.log[i].ok) =>
            \E j \in (i + 1)..Len(last.log) : last.log[j].c = "LOGOUT"

\* C11: a failed disconnect does not fail the command: the command returns
\* success and its local cache update is made.
C11_DisconnectFailureNotFatal ==
    Failed({"LOGOUT"}) =>
        /\ last.ok
        /\ \E i \in 1..Len(last.log) : last.log[i].c \in CacheWrites /\ last.log[i].ok

\* the bulk actions whose remote mutation sets or clears one flag
IsFlagAction == last.op \in {"mark_emails_as_read", "mark_emails_as_unread", "delete_emails"}

\* message m as the remote mutation of the last command leaves it: NoMsg
\* stands for its removal
NoMsg == [uid |-> 0, seen |-> FALSE, flagged |-> FALSE, deleted |-> TRUE]

Mutated(m) ==
    CASE last.op = "mark_emails_as_read" -> [m EXCEPT !.seen = TRUE]
      [] last.op = "mark_emails_as_unread" -> [m EXCEPT !.seen = FALSE]
      [] last.op = "delete_emails" -> NoMsg

\* the messages of folder f in mailbox mb, by UID
ByUid(mb, f) == {mb[f][k] : k \in 1..Len(mb[f])}

\* C12: a flag action issued for one identifier (folder, uid) that returned
\* success changed the message of that folder whose UID is uid, and left
\* every other message of the mailbox as it was.
C12_MutationAddressesUid ==
    ( /\ IsFlagAction
      /\ last.ok
      /\ Len(last.issued) = 1
      /\ Holds(last.pre.mb, last.issued[1]) ) =>
        \A f \in FolderNames, u \in BatchUids :
            last.issued[1] = EmailId(LastAccount, f, u) =>
                /\ DOMAIN LastMailbox = DOMAIN last.pre.mb
                /\ \A g \in DOMAIN LastMailbox \ {f} : LastMailbox[g] = last.pre.mb[g]
                /\ \A m \in ByUid(last.pre.mb, f) :
                      IF m.uid = u
                      THEN \/ Mutated(m) \in ByUid(LastMailbox, f)
                           \/ /\ Mutated(m) = NoMsg
                              /\ \A r \in ByUid(LastMailbox, f) : r.uid # u
                      ELSE m \in ByUid(LastMailbox, f)

\* the last command is a fetch that selected its folder and that no external
\* fault or unparsable message interfered with
FetchServed ==
    /\ last.op = "fetch_emails_secure"
    /\ ~last.faulted
    /\ \E i \in 1..Len(last.log) : last.log[i].c = "SELECT" /\ last.log[i].ok

Min(a, b) == IF a <= b THEN a ELSE b

\* C13: a fetch with limit `limit` of a folder that holds n messages returns
\* without error the min(n, limit) messages with the highest sequence numbers,
\* newest first, n = 0 included.
C13_FetchReturnsNewest ==
    FetchServed =>
        LET messages == last.pre.mb[last.folder_name]
            n == Len(messages)
            k == Min(n, last.limit)
        IN  /\ last.ok
            /\ Len(last.out) = k
            /\ \A i \in 1..k : last.out[i].uid = messages[n + 1 - i].uid

\* the same statement for the folders that hold at least one message
C13_NonEmptyFolders ==
    (FetchServed /\ Len(last.pre.mb[last.folder_name]) >= 1) => C13_FetchReturnsNewest

\* the UIDs of the messages that the last command could not parse
Unparsed == {last.log[i].n : i \in {j \in 1..Len(last.log) :
                                     last.log[j].c = "PARSE" /\ ~last.log[j].ok}}

\* the UIDs of the messages that a fetch of the last command's folder with
\* its limit covers
Covered ==
    LET messages == last.pre.mb[last.folder_name]
        n == Len(messages)
    IN  {messages[i].uid : i \in (n - Min(n, last.limit) + 1)..n}

\* C14: when one message of a fetch cannot be parsed, the fetch still
\* succeeds, and every other message it covers is returned and cached.
C14_UnparsableSkipped ==
    (last.op = "fetch_emails_secure" /\ Unparsed # {}) =>
        /\ last.ok
        /\ \A u \in Covered \ Unparsed :
              /\ \E j \in 1..Len(last.out) : last.out[j].uid = u
              /\ EmailId(LastAccount, last.folder_name, u) \in Ids(emails)

\* the fetch of the last command run once more, by fetch_emails_secure
\* (secure) or by fetch_emails, on the mailbox and the cache as they are
FetchedAgain(secure) ==
    fetch_emails_run(NewSession(LastMailbox, Cache, 0), LastAccount, last.folder_name,
                     last.limit, secure)

\* C15: after a fetch that succeeded, the emails table holds one row per
\* identifier, and the same fetch run a second time over the unchanged
\* mailbox succeeds and leaves the cache as the first run left it.
C15_IngestionIdempotent ==
    (last.op = "fetch_emails_secure" /\ last.ok) =>
        /\ \A r1 \in emails, r2 \in emails : r1.id = r2.id => r1 = r2
        /\ \A secure \in BOOLEAN :
              /\ FetchedAgain(secure).ok
              /\ FetchedAgain(secure).T = Cache

\* a fetch that returned two messages or more, one of which was cached before
\* the call with a starred flag that the fetched row does not carry
C15_Witness ==
    /\ last.op = "fetch_emails_secure"
    /\ last.ok
    /\ Len(last.out) >= 2
    /\ \E j \in 1..Len(last.out) : \E e \in last.pre.T.emails :
          /\ e.id = EmailId(LastAccount, last.folder_name, last.out[j].uid)
          /\ e.is_starred
          /\ e \notin emails

\* C16: an identifier built from an account id and a folder name without
\* '-' and a uid is decoded by the bulk actions to that folder and that uid.
C16_DecodeInvertsFormat ==
    codec.stage = "decoded" =>
        /\ codec.decoded.ok
        /\ codec.decoded.folder = codec.folder_name
        /\ codec.decoded.uid = codec.uid

\* an identifier of folder INBOX with a uid of several digits has been decoded
C16_Witness ==
    /\ codec.stage = "decoded"
    /\ codec.account_id = ACCT1
    /\ codec.folder_name = INBOX
    /\ codec.uid = 100
    /\ codec.decoded.ok

\* the identifier has fewer than three parts, or a last part that is not a
\* non-negative integer
Undecodable(email_id) ==
    LET parts == Split(email_id, Dash)
    IN  Len(parts) < 3 \/ ~ParseU32(Last(parts)).ok

\* C17: no bulk action, move_emails_to_folder included, issues a remote
\* command for an identifier of its batch that has fewer than three parts or
\* a last part that is not a non-negative integer.
C17_UndecodableNotIssued ==
    IsBulk =>
        \A i \in Positions :
            Undecodable(last.email_ids[i]) => ~InBatch(last.email_ids[i], last.issued)

\* the same statement for mark_emails_as_read, mark_emails_as_unread and
\* delete_emails
C17_FlagActions == IsFlagAction => C17_UndecodableNotIssued

\* the task is inside a command that works on the session of its account
Operating(t) == tasks[t].pc \in {"send", "wait"}

\* C18: whatever the interleaving of the imap_* commands, no two tasks are
\* at the same time inside commands on the session of one account.
C18_OneOperationPerSession ==
    \A t1 \in Tasks, t2 \in Tasks :
        (t1 # t2 /\ Operating(t1) /\ Operating(t2)) =>
            tasks[t1].account_id # tasks[t2].account_id

\* a task waits for the answer to an exchange on the session of an account,
\* on which the other task has completed a command before
C18_Witness ==
    \E t1 \in Tasks, t2 \in Tasks :
        /\ t1 # t2
        /\ tasks[t1].pc = "wait"
        /\ tasks[t1].op = "imap_fetch_emails"
        /\ tasks[t2].pc = "idle"
        /\ tasks[t2].op = "imap_mark_email"
        /\ tasks[t2].ok
        /\ tasks[t2].account_id = tasks[t1].account_id

\* the task is blocked on the server of its account: it is connecting, or it
\* is in a fetch, after the SELECT has been answered
Blocked(t) ==
    \/ tasks[t].op = "imap_connect" /\ tasks[t].pc = "wait"
    \/ /\ tasks[t].op = "imap_fetch_emails"
       /\ Operating(t)
       /\ Head(tasks[t].todo).c = "FETCH"

\* C19: while a command is blocked on the server of its account, a command
\* for another account can take the lock: an imap_list_folders of a free task
\* for that other account can enter.
C19_OtherAccountsProceed ==
    \A t1 \in Tasks, t2 \in Tasks, b \in ImapAccounts :
        ( /\ Blocked(t1)
          /\ tasks[t2].pc = "idle"
          /\ b # tasks[t1].account_id
          /\ ncalls < MaxImapCalls ) =>
            ENABLED imap_list_folders(t2, b)

\* the folder names of the accounts
AllNames == DOMAIN Mailbox2 \cup CreatedNames

\* the rows of table rows that belong to other accounts than a
OfOthers(rows, a) == {r \in rows : r.account_id # a}

\* C20: two different (account, folder name) pairs have different folder
\* identifiers; the folders table holds one row per identifier, the one of the
\* pair it is built from; sync_folders and create_folder for an account leave
\* the rows of the other accounts as they were, and the INSERT of create_folder
\* is refused only when the row of that very pair is cached.
C20_FolderIdResolvesToOnePair ==
    /\ \A a1 \in Accounts, a2 \in Accounts, f1 \in AllNames, f2 \in AllNames :
          FolderId(a1, f1) = FolderId(a2, f2) => (a1 = a2 /\ f1 = f2)
    /\ \A r1 \in folders, r2 \in folders : r1.id = r2.id => r1 = r2
    /\ \A r \in folders : r.id = FolderId(r.account_id, r.name)
    /\ last.op \in {"sync_folders_secure", "create_folder"} =>
          /\ OfOthers(folders, LastAccount) = OfOthers(last.pre.T.folders, LastAccount)
          /\ (Failed({"INSERT_FOLDER"}) /\ ~last.faulted) =>
                \E r \in last.pre.T.folders :
                    r.account_id = LastAccount /\ r.name = last.folder_name

\* the folders of one account have been synchronised while the folders
\* table held rows of the other account, among them a name with '-'
C20_Witness ==
    /\ last.op = "sync_folders_secure"
    /\ last.ok
    /\ \E r \in OfOthers(last.pre.T.folders, LastAccount) : r.name = B_INBOX
    /\ \E r \in folders : r.account_id = LastAccount /\ r.name = B_INBOX

IsStarAction == last.op \in {"star_emails", "unstar_emails"}

\* the cached emails that the batch of the last command names
Targeted == {e \in emails : InBatch(e.id, last.email_ids)}

\* C21: star_emails and unstar_emails set the remote flag of each identifier
\* before they update the cache: after a successful call a STORE precedes the
\* cache write, and the is_starred of every targeted email whose message is
\* on the server equals the \Flagged of that message.
C21_StarReachesServer ==
    (IsStarAction /\ last.ok /\ Targeted # {}) =>
        /\ \E i \in 1..Len(last.log), j \in 1..Len(last.log) :
              /\ i < j
              /\ last.log[i].c = "STORE" /\ last.log[i].ok
              /\ last.log[j].c = "UPDATE_EMAILS_STARRED"
        /\ \A e \in Targeted : \A f \in FolderNames, u \in BatchUids :
              (e.id = EmailId(LastAccount, f, u) /\ f \in DOMAIN LastMailbox) =>
                  \A m \in ByUid(LastMailbox, f) :
                      m.uid = u => m.flagged = e.is_starred

\* C22: after delete_folder(account, name) succeeded, the folders table has no
\* row for that folder, and no email that was cached under that folder of
\* the account is left in the emails table.
C22_DeleteFolderCascades ==
    (last.op = "delete_folder" /\ last.ok) =>
        /\ \A r \in folders :
              ~(r.account_id = LastAccount /\ r.name = last.folder_name)
        /\ FolderId(LastAccount, last.folder_name) \notin Ids(folders)
        /\ \A e \in last.pre.T.emails :
              (e.account_id = LastAccount
                 /\ e.folder_id \in Designates(LastAccount, last.folder_name)) =>
                  e.id \notin Ids(emails)

\* the identifier is one of the batch of the last command
Named(id) == \E i \in Positions : last.email_ids[i] = id

\* C23: after mark_emails_as_read (star_emails) returned success, the emails
\* table is the one before the call with is_read (is_starred) set in the rows
\* whose id is in the batch: no other column and no other row has changed.
C23_FlagUpdateFrame ==
    /\ (last.op = "mark_emails_as_read" /\ last.ok) =>
          emails = {IF Named(e.id) THEN [e EXCEPT !.is_read = TRUE] ELSE e :
                      e \in last.pre.T.emails}
    /\ (last.op = "star_emails" /\ last.ok) =>
          emails = {IF Named(e.id) THEN [e EXCEPT !.is_starred = TRUE] ELSE e :
                      e \in last.pre.T.emails}

\* mark_emails_as_read succeeded on a batch that names a cached email that
\* was unread, while another cached email is not in the batch
C23_Witness ==
    /\ last.op = "mark_emails_as_read"
    /\ last.ok
    /\ \E e \in last.pre.T.emails : Named(e.id) /\ ~e.is_read
    /\ \E e \in last.pre.T.emails : ~Named(e.id)

\* C24: after delete_emails returned success, the emails table is the one
\* before the call without the rows whose id is in the batch.
C24_DeleteFrame ==
    (last.op = "delete_emails" /\ last.ok) =>
        emails = {e \in last.pre.T.emails : ~Named(e.id)}

\* delete_emails succeeded on a batch that names a cached email, while
\* another cached email is not in the batch
C24_Witness ==
    /\ last.op = "delete_emails"
    /\ last.ok
    /\ \E e \in last.pre.T.emails : Named(e.id)
    /\ \E e \in last.pre.T.emails : ~Named(e.id)

DeletesRenamed ==
    /\ last.op = "delete_folder"
    /\ last.renamed # NoFolder
    /\ last.folder_name = last.renamed
    /\ ~last.faulted

\* delete_folder succeeded and the cache holds no row for the folder
DeletedWithRow ==
    /\ last.ok
    /\ FolderId(LastAccount, last.folder_name) \notin Ids(folders)
    /\ \A r \in folders : ~(r.account_id = LastAccount /\ r.name = last.folder_name)

\* the name contains "inbox", "sent", "trash" or "drafts" in any case
NamesEssential(f) ==
    \E w \in ProtectedWords :
        \E i \in 0..(Len(f) - Len(w)) :
            \A j \in 1..Len(w) : LowerChar(f[i + j]) = w[j]

UnknownAccountCall ==
    /\ \/ last.op = "sync_folders_secure"
       \/ last.op = "mark_emails_as_read" /\ last.email_ids # <<>>
    /\ LastAccount \notin last.pre.T.accounts

\* C27: sync_folders_secure, and mark_emails_as_read with a non-empty batch,
\* called for an account id without an account row return an error, take no
\* step beyond the lookup of the row (no remote connection) and leave the cache (and the remote store) as it was.
C27_UnknownAccountRefused ==
    UnknownAccountCall =>
        /\ ~last.ok
        /\ \A i \in 1..Len(last.log) : last.log[i].c = "ACCOUNT"
        /\ Cache = last.pre.T
        /\ LastMailbox = last.pre.mb

\* mark_emails_as_read of a non-empty batch for an account whose row was
\* deleted while its credentials are still stored
C27_Witness ==
    /\ UnknownAccountCall
    /\ last.op = "mark_emails_as_read"
    /\ LastAccount \in last.pre.T.creds

\* the actions the comment on MarkEmailRequest.action lists
DocumentedActions == {"read", "unread", "starred", "unstarred", "delete"}

\* the flag the listed action is about
FlagOf(action) ==
    CASE action \in {"read", "unread"} -> "Seen"
      [] action \in {"starred", "unstarred"} -> "Flagged"
      [] action = "delete" -> "Deleted"

\* task t has returned from an imap_mark_email that found a client of the
\* account
MarkReturned(t) ==
    /\ tasks[t].op = "imap_mark_email"
    /\ tasks[t].pc = "idle"
    /\ tasks[t].found

\* C28: imap_mark_email accepts each of "read", "unread", "starred",
\* "unstarred", "delete" (it does not refuse it without a word to the server,
\* and when it returns Ok a STORE of the flag of the action was issued); any
\* other action is refused without a remote command.
C28_DocumentedActionsApplied ==
    \A t \in Tasks :
        MarkReturned(t) =>
            IF tasks[t].action \in DocumentedActions
            THEN /\ tasks[t].issued # <<>>
                 /\ tasks[t].ok =>
                       \E i \in 1..Len(tasks[t].issued) :
                           /\ tasks[t].issued[i].c = "STORE"
                           /\ tasks[t].issued[i].flag = FlagOf(tasks[t].action)
            ELSE ~tasks[t].ok /\ tasks[t].issued = <<>>

\* the part of C28 that the handler meets: the three actions it matches are
\* applied, every action outside the documented five is refused unsent
C28_MatchedActionsApplied ==
    \A t \in Tasks :
        (MarkReturned(t) /\ tasks[t].action \notin {"unread", "unstarred"}) =>
            IF tasks[t].action \in DocumentedActions
            THEN /\ tasks[t].issued # <<>>
                 /\ tasks[t].ok =>
                       \E i \in 1..Len(tasks[t].issued) :
                           /\ tasks[t].issued[i].c = "STORE"
                           /\ tasks[t].issued[i].flag = FlagOf(tasks[t].action)
            ELSE ~tasks[t].ok /\ tasks[t].issued = <<>>

\* the last command marks read, marks unread or deletes, has connected and
\* met no external fault
ActsById ==
    /\ last.op \in {"mark_emails_as_read", "mark_emails_as_unread", "delete_emails"}
    /\ ~last.faulted
    /\ \E j \in 1..Len(last.log) : last.log[j].c = "CONNECT" /\ last.log[j].ok

\* C29: for an account saved by save_account_secure and an email cached by
\* fetch_emails_secure from folder F with UID u, mark_emails_as_read,
\* mark_emails_as_unread and delete_emails given the identifier of that email
\* select folder F and store on UID u.
C29_ActsOnFetchedFolderAndUid ==
    ActsById =>
        \A e \in last.pre.T.emails :
            (e.account_id = LastAccount /\ last.email_ids = <<e.id>>) =>
                /\ \E j \in 1..Len(last.log) :
                      last.log[j].c = "SELECT" /\ last.log[j].f = e.folder_id
                /\ \E j \in 1..Len(last.log) :
                      last.log[j].c = "STORE" /\ last.log[j].n = e.uid

\* during the last bulk action the remote mutation of an identifier failed
MutationFailed ==
    /\ IsBulk
    /\ Len(last.succeeded) < Len(last.issued)

\* the identifier whose remote mutation was called last
LastIssued == last.issued[Len(last.issued)]

\* C30: when the remote mutation of one identifier fails during a bulk action
\* (mark read, mark unread, delete, move), the action returns an error at that
\* identifier: it is the only one that failed, the failed round trip is the
\* last step of the call (no mutation for a later identifier, no statement on
\* the cache), the cache is as before the call, and the error names the
\* identifier.
C30_StopsAtFailingIdentifier ==
    MutationFailed =>
        /\ ~last.ok
        /\ Len(last.issued) = Len(last.succeeded) + 1
        /\ \E p \in Positions :
              /\ last.email_ids[p] = LastIssued
              /\ \A q \in Positions :
                    InBatch(last.email_ids[q], last.issued) =>
                        \E r \in 1..p : last.email_ids[r] = last.email_ids[q]
        /\ ~last.log[Len(last.log)].ok
        /\ \A i \in 1..(Len(last.log) - 1) : last.log[i].ok
        /\ Cache = last.pre.T
        /\ last.named = LastIssued

\* the mutation of the first of two decodable identifiers failed, and the cache
\* held the email of the second
C30_Witness ==
    /\ MutationFailed
    /\ Len(last.email_ids) = 2
    /\ Len(last.issued) = 1
    /\ last.email_ids[1] # last.email_ids[2]
    /\ ~Undecodable(last.email_ids[2])
    /\ last.email_ids[2] \in Ids(last.pre.T.emails)

\* the last call is a move_email of the client
IsMove == last.op = "move_email"

Steps == 1..Len(last.log)

\* COPY follows a successful SELECT, STORE a successful COPY of the same
\* number, EXPUNGE a successful STORE
MoveStepsOrdered ==
    \A i \in Steps :
        /\ last.log[i].c = "COPY" =>
              i > 1 /\ last.log[i - 1].c = "SELECT" /\ last.log[i - 1].ok
        /\ last.log[i].c = "STORE" =>
              /\ i > 1 /\ last.log[i - 1].c = "COPY" /\ last.log[i - 1].ok
              /\ last.log[i - 1].n = last.log[i].n
        /\ last.log[i].c = "EXPUNGE" =>
              i > 1 /\ last.log[i - 1].c = "STORE" /\ last.log[i - 1].ok

\* the UIDs of the source folder that the last call removed from it, or
\* flagged \Deleted in it
LostFromSource ==
    LET f == last.folder_name
    IN  IF f \in DOMAIN last.pre.mb
        THEN {m.uid : m \in {x \in ByUid(last.pre.mb, f) :
                                 \/ \A y \in ByUid(LastMailbox, f) : y.uid # x.uid
                                 \/ \E y \in ByUid(LastMailbox, f) :
                                       y.uid = x.uid /\ y.deleted /\ ~x.deleted}}
        ELSE {}

\* the ordering part of C31 alone
C31_MoveStepsOrdered == IsMove => MoveStepsOrdered

\* C31: move_email issues COPY, then STORE +\Deleted, then EXPUNGE, each only
\* after the step before it succeeded, and every message that it removes from
\* the source folder or flags \Deleted in it is one of which a COPY has
\* succeeded.
C31_CopyBeforeDelete ==
    IsMove =>
        /\ MoveStepsOrdered
        /\ \A u \in LostFromSource : <<last.folder_name, u>> \in last.copied

\* the commands that act on the messages of the selected folder
MessageCommands == {"STORE", "COPY", "EXPUNGE", "FETCH"}

\* the last call is a method of the client that takes a folder
IsFolderMethod ==
    last.op \in {"fetch_emails", "mark_as_read", "mark_as_unread", "mark_as_starred",
                 "delete_email", "move_email"}

\* C32: every STORE, COPY, EXPUNGE and FETCH of a method of ImapClient acts on
\* the folder of the method and comes, within the call, after a successful
\* SELECT of that folder; a SELECT that fails is the last step of the call.
C32_SelectPrecedesMessageCommands ==
    IsFolderMethod =>
        /\ \A i \in Steps :
              last.log[i].c \in MessageCommands =>
                  /\ last.log[i].f = last.folder_name
                  /\ \E j \in 1..(i - 1) :
                        /\ last.log[j].c = "SELECT"
                        /\ last.log[j].ok
                        /\ last.log[j].f = last.folder_name
        /\ \A i \in Steps :
              (last.log[i].c = "SELECT" /\ ~last.log[i].ok) => i = Len(last.log)

\* delete_email for a folder that the server refuses to select, on a client
\* whose session has another folder selected
C32_Witness ==
    /\ last.op = "delete_email"
    /\ last.connected
    /\ last.log = <<Event("SELECT", last.folder_name, <<>>, 0, FALSE)>>
    /\ ~last.faulted
    /\ imap_client.sel \in DOMAIN LastMailbox
    /\ SeqValid([sel |-> imap_client.sel, mb |-> LastMailbox], last.uid)

\* the methods of ImapClient that need a session
SessionMethods ==
    {"list_folders", "select_folder", "fetch_emails", "mark_as_read", "mark_as_unread",
     "mark_as_starred", "delete_email", "move_email"}

\* C34: the client holds a session only after a connect that succeeded (a
\* failed connect leaves it without one, and no other method gives it one); a
\* method that needs a session, called on a client without one, returns the
\* error "Not connected to IMAP server", has no exchange with the server and
\* leaves the server as it was.
C34_ConnectedOnlyAfterConnect ==
    /\ last.op = "none" => ~imap_client.conn
    /\ last.op = "connect" => (imap_client.conn <=> last.ok)
    /\ last.op \notin {"none", "connect"} => (imap_client.conn => last.connected)
    /\ (last.op \in SessionMethods /\ ~last.connected) =>
          /\ ~last.ok
          /\ last.out = "Not connected to IMAP server"
          /\ last.log = <<>>
          /\ LastMailbox = last.pre.mb

\* a method that needs a session is called after a connect that failed
C34_Witness ==
    /\ last.op = "move_email"
    /\ ~last.connected
    /\ ncalls = 2
    /\ nfaults = 1
    /\ last.folder_name = WORK

\* C33: the folder_id of every cached email is the id of a row of the folders
\* table that belongs to the account of the email.
C33_EmailsReferenceFolders ==
    \A e \in emails :
        \E r \in folders : r.id = e.folder_id /\ r.account_id = e.account_id

\* the commands that look their client up in the map
LookupCommands == {"imap_list_folders", "imap_fetch_emails", "imap_mark_email"}

\* every entry of the map holds a client with a session, and a command that
\* found no client has returned an error without a word to the server
EntriesConnected ==
    /\ \A a \in DOMAIN IMAP_CLIENTS : IMAP_CLIENTS[a].conn
    /\ \A t \in Tasks :
          (tasks[t].op \in LookupCommands /\ ~tasks[t].found) =>
              /\ tasks[t].pc = "idle"
              /\ ~tasks[t].ok
              /\ tasks[t].issued = <<>>

\* what a step of task t does to the map
MapStep(t) ==
    /\ (tasks[t].op = "imap_connect" /\ tasks[t].pc = "wait" /\ tasks'[t].pc = "idle") =>
          IF tasks'[t].ok
          THEN /\ tasks[t].account_id \in DOMAIN IMAP_CLIENTS'
               /\ \A a \in DOMAIN IMAP_CLIENTS \ {tasks[t].account_id} :
                     a \in DOMAIN IMAP_CLIENTS' /\ IMAP_CLIENTS'[a] = IMAP_CLIENTS[a]
          ELSE IMAP_CLIENTS' = IMAP_CLIENTS
    /\ (tasks'[t].op = "imap_disconnect" /\ tasks'[t] # tasks[t]) =>
          tasks'[t].account_id \notin DOMAIN IMAP_CLIENTS'
    /\ (tasks'[t].op \in LookupCommands /\ tasks[t].pc = "idle" /\ tasks'[t].pc = "send") =>
          tasks'[t].account_id \in DOMAIN IMAP_CLIENTS

\* C35: every entry of IMAP_CLIENTS holds a connected client; imap_connect
\* inserts its client only when connect succeeded and a failed one leaves the
\* map as it was; imap_disconnect removes the entry whether the logout
\* succeeds or fails; imap_list_folders, imap_fetch_emails and imap_mark_email
\* go to the server only for an account that has an entry and otherwise
\* return an error at once.
C35_MapHoldsConnectedClients ==
    /\ []EntriesConnected
    /\ [][\A t \in Tasks : MapStep(t)]_vars

\* the logout of imap_disconnect failed, the entry is gone, and a later
\* imap_list_folders for the account found no client
C35_Witness ==
    \E t1 \in Tasks, t2 \in Tasks :
        /\ tasks[t1].op = "imap_disconnect" /\ tasks[t1].pc = "idle" /\ ~tasks[t1].ok
        /\ tasks[t2].op = "imap_list_folders" /\ tasks[t2].pc = "idle"
        /\ tasks[t2].account_id = tasks[t1].account_id
        /\ ~tasks[t2].found
        /\ tasks[t1].account_id \notin DOMAIN IMAP_CLIENTS
        /\ IMAP_CLIENTS # <<>>

\* the messages of the folder of the last call that the call did not address:
\* neither the one whose UID is the number passed nor the one at that position
NotAddressed ==
    LET f == last.folder_name
    IN  IF f \in DOMAIN last.pre.mb
        THEN {last.pre.mb[f][k] : k \in {i \in 1..Len(last.pre.mb[f]) :
                 i # last.uid /\ last.pre.mb[f][i].uid # last.uid}}
        ELSE {}

\* C36: delete_email and move_email remove from the source folder only the
\* message they address: every other message of the folder, one that already
\* carried \Deleted included, is still in the folder after the call.
C36_OnlyTargetRemoved ==
    last.op \in {"delete_email", "move_email"} =>
        \A m \in NotAddressed :
            \E y \in ByUid(LastMailbox, last.folder_name) : y.uid = m.uid

\* C37: a fetch_emails_secure that succeeds leaves a cached email that was
\* unread (after mark_emails_as_unread) unread, and one that was starred (after
\* star_emails) starred.
C37_RefetchKeepsFlags ==
    (last.op = "fetch_emails_secure" /\ last.ok) =>
        \A e \in last.pre.T.emails, e2 \in emails :
            e2.id = e.id =>
                /\ ~e.is_read => ~e2.is_read
                /\ e.is_starred => e2.is_starred

\* C38: after a successful sync_folders_secure the folders cached for the
\* account are exactly the folders the server lists.
C38_SyncMirrorsRemoteFolders ==
    (last.op = "sync_folders_secure" /\ last.ok) =>
        {r.name : r \in {x \in folders : x.account_id = LastAccount}} = DOMAIN LastMailbox

\* no call on the credential store is under way
Quiet == \A t \in Tasks : tasks[t].pc = "idle"

\* what retrieve_credentials returns for the account, called now
Retrieved(account_id) == decrypt_password(load_or_create(0), account_id)

\* C39: once the calls on the credential store have returned, the password of
\* every account for which store_credentials returned Ok (and
\* delete_credentials has not since) is retrieved as stored, and
\* retrieve_credentials fails for every other account.
C39_NoCredentialLost ==
    Quiet =>
        \A a \in CredAccounts :
            IF a \in creds
            THEN Retrieved(a).ok /\ Retrieved(a).password = Password(a)
            ELSE ~Retrieved(a).ok

====
